---------------------------- MODULE Spec2Model ----------------------------
(***************************************************************************)
(* A model of the cloudflare-worker-starter library: the session manager, *)
(* the KV rate limiter, the email validator with its disposable-domain    *)
(* cache, the audit log, the email sender, the account functions, and    *)
(* the worker: its signup and contact handlers and its fetch handler.     *)
(*                                                                         *)
(* Time is Date.now() counted in whole seconds: every duration of the    *)
(* code is a whole number of seconds, written in the code in milliseconds *)
(* (x ms here is x / 1000) except the expirationTtl values, which the     *)
(* code writes in seconds.  A KV namespace is a function from the keys it *)
(* holds to [value, expiration]; a key whose expiration has passed is no  *)
(* longer returned by get.  A JS object is a record; a numeric option or  *)
(* environment entry that is not set is 0 (the code reads all of them     *)
(* through `|| default`, for which undefined, NaN and 0 are the same).    *)
(***************************************************************************)
EXTENDS Integers, Sequences, FiniteSets, TLC

VARIABLES
    now,        \* Date.now()
    ticks,      \* number of clock advances so far
    env,        \* the worker's environment entries (numeric ones parsed)
    SESSIONS,   \* KV namespace env.SESSIONS
    issued,     \* identifiers returned by createSession so far, with the call
    AUDIT,      \* KV namespace env.AUDIT
    USERS,      \* KV namespace env.USERS
    DISPOSABLE_DOMAINS_CACHE,   \* email-validation.js: the module's cache,
    CACHE_TIMESTAMP,            \* and the time it was loaded
    rl,         \* the limit and windowMs the rate-limited route passes
    rlLog,      \* the checkRateLimit calls made so far, in order
    inflight,   \* the checkRateLimit calls between their get and their put
    logger,     \* one ThrottledLogger: maxLogsPerHour, logCount, hourStart
    logWrites,  \* the times of the logger's successful writes, in order
    emailProviders, \* email.js: the registry of provider implementations
    loggedOut,  \* identifiers whose session a /logout request destroyed
    last        \* the call that has just returned: inputs, what it saw, result

vars == <<now, ticks, env, SESSIONS, issued, AUDIT, USERS,
          DISPOSABLE_DOMAINS_CACHE, CACHE_TIMESTAMP, rl, rlLog, inflight,
          logger, logWrites, emailProviders, loggedOut, last>>

rateVars == <<rl, rlLog>>
mailVars == <<DISPOSABLE_DOMAINS_CACHE, CACHE_TIMESTAMP>>
logVars == <<logger, logWrites>>

----------------------------------------------------------------------------
(* Bounds *)

T0 == 1
MaxTicks == 4
MaxLimit == 3
MaxCalls == 4
MaxAudit == 2
MaxRaceCalls == 3
MaxLogWrites == 4
MaxEventTicks == 1
MaxUsers == 2

----------------------------------------------------------------------------
(* config.js *)

DefaultSessionMaxAge == 604800
DefaultSessionTimeout == 1800
DefaultSessionExpirationTtl == 604800
DefaultAuditLogTtl == 2592000
DefaultMaxLogsPerHour == 100

\* parseInt(x) || d
OrDefault(x, d) == IF x # 0 THEN x ELSE d

getConfig(e) ==
    [session |->
        [maxAge |-> OrDefault(e.SESSION_MAX_AGE, DefaultSessionMaxAge),
         timeout |-> OrDefault(e.SESSION_TIMEOUT, DefaultSessionTimeout),
         expirationTtl |-> OrDefault(e.SESSION_EXPIRATION_TTL,
                                     DefaultSessionExpirationTtl)],
     logging |->
        [maxLogsPerHour |-> OrDefault(e.MAX_LOGS_PER_HOUR, DefaultMaxLogsPerHour),
         auditLogTtl |-> OrDefault(e.AUDIT_LOG_TTL, DefaultAuditLogTtl)]]

----------------------------------------------------------------------------
(* The KV namespace (platform): get / put with expirationTtl / delete *)

\* expiration 0: the key was put without expirationTtl
KVHas(store, key, t) ==
    key \in DOMAIN store /\ (store[key].expiration = 0 \/ store[key].expiration > t)

KVPut(store, key, value, ttl, t) ==
    [k \in DOMAIN store \cup {key} |->
        IF k = key THEN [value |-> value, expiration |-> t + ttl]
        ELSE store[k]]

KVPutForever(store, key, value) ==
    [k \in DOMAIN store \cup {key} |->
        IF k = key THEN [value |-> value, expiration |-> 0] ELSE store[k]]

KVDelete(store, key) == [k \in DOMAIN store \ {key} |-> store[k]]

\* JSON text of an object, and the object of a JSON text
JSONstringify(obj) == <<"json", obj>>
JSONparse(text) == text[2]

----------------------------------------------------------------------------
(* session.js *)

fiveMinutes == 5 * 60

\* obj.f is a number other than 0 (a truthy session.f)
Truthy(obj, f) == f \in DOMAIN obj /\ obj[f] # 0

SetField(obj, f, v) ==
    [k \in DOMAIN obj \cup {f} |-> IF k = f THEN v ELSE obj[k]]

\* cookie.split("; ").find(row => row.startsWith("session=")): a header is
\* the sequence of its "; "-separated rows, a row the sequence of its
\* "="-separated parts
IsSessionRow(row) == Len(row) >= 2 /\ row[1] = "session"

HasSessionRow(rows) == \E i \in 1..Len(rows) : IsSessionRow(rows[i])

FindSessionRow(rows) ==
    rows[CHOOSE i \in 1..Len(rows) :
            /\ IsSessionRow(rows[i])
            /\ \A j \in 1..(i - 1) : ~IsSessionRow(rows[j])]

\* Mutant: the expiry check with <= for <
IsExpired_Inclusive(session, t) ==
    Truthy(session, "expiresAt") /\ session.expiresAt <= t

\* session.expiresAt && session.expiresAt < Date.now()
IsExpired(session, t) == Truthy(session, "expiresAt") /\ session.expiresAt < t

\* session.lastActivity && Date.now() - session.lastActivity > config.session.timeout
IsTimedOut(session, t, config) ==
    Truthy(session, "lastActivity") /\ t - session.lastActivity > config.session.timeout

\* Mutant: no debounce, every read refreshes
shouldUpdateActivity_Inclusive(session, t) ==
    ~Truthy(session, "lastActivity") \/ t - session.lastActivity >= fiveMinutes

shouldUpdateActivity_NoDebounce(session, t) ==
    ~Truthy(session, "lastActivity") \/ t - session.lastActivity >= 0

shouldUpdateActivity(session, t) ==
    ~Truthy(session, "lastActivity") \/ t - session.lastActivity > fiveMinutes

NoSession == [id |-> "null"]

\* The outcome of a call that returns null without touching the store
ReturnNull(store) ==
    [store |-> store, threw |-> FALSE, found |-> FALSE, session |-> NoSession,
     read |-> FALSE, seen |-> NoSession, id |-> "", wrote |-> FALSE,
     skipped |-> FALSE, deleted |-> FALSE]

\* Mutant: null is returned without the delete
DestroyAndReturnNull_NoDelete(store, id, session, fault) ==
    [ReturnNull(store) EXCEPT !.read = TRUE, !.seen = session, !.id = id]

\* destroySession from within getSession: the delete, then return null
DestroyAndReturnNull(store, id, session, fault) ==
    LET base == [ReturnNull(store) EXCEPT !.read = TRUE, !.seen = session, !.id = id]
    IN  IF fault = "deleteError"
        THEN [base EXCEPT !.threw = TRUE]
        ELSE [base EXCEPT !.store = KVDelete(store, id), !.deleted = TRUE]

\* Mutant: the quota error of the refresh write is re-thrown like any other
RefreshAndReturn_Rethrow(store, id, session, t, config, fault) ==
    LET base == [ReturnNull(store) EXCEPT !.read = TRUE, !.seen = session, !.id = id]
        bumped == SetField(session, "lastActivity", t)
    IN  IF ~shouldUpdateActivity(session, t)
        THEN [base EXCEPT !.found = TRUE, !.session = SetField(session, "id", id)]
        ELSE IF fault \in {"putQuota", "putError"}
        THEN [base EXCEPT !.skipped = fault = "putQuota", !.threw = TRUE]
        ELSE [base EXCEPT
                !.store = KVPut(store, id, JSONstringify(bumped),
                                config.session.expirationTtl, t),
                !.wrote = TRUE, !.found = TRUE,
                !.session = SetField(bumped, "id", id)]

\* The refresh of lastActivity and the return of the session
RefreshAndReturn(store, id, session, t, config, fault) ==
    LET base == [ReturnNull(store) EXCEPT !.read = TRUE, !.seen = session, !.id = id]
        bumped == SetField(session, "lastActivity", t)
    IN  IF ~shouldUpdateActivity(session, t)
        THEN [base EXCEPT !.found = TRUE, !.session = SetField(session, "id", id)]
        ELSE IF fault = "putQuota"
        THEN [base EXCEPT !.skipped = TRUE, !.found = TRUE,
                          !.session = SetField(bumped, "id", id)]
        ELSE IF fault = "putError"
        THEN [base EXCEPT !.threw = TRUE]
        ELSE [base EXCEPT
                !.store = KVPut(store, id, JSONstringify(bumped),
                                config.session.expirationTtl, t),
                !.wrote = TRUE, !.found = TRUE,
                !.session = SetField(bumped, "id", id)]

\* getSession(request, env) at time t.  fault names the store operation of
\* this call that fails, if any: the call makes one get and then at most one
\* put or delete
getSession(store, request, t, config, fault) ==
    IF "Cookie" \notin DOMAIN request \/ request.Cookie = <<>>
    THEN ReturnNull(store)
    ELSE IF ~HasSessionRow(request.Cookie)
    THEN ReturnNull(store)
    ELSE LET id == FindSessionRow(request.Cookie)[2] IN
        IF fault = "getError"
        THEN [ReturnNull(store) EXCEPT !.id = id, !.threw = TRUE]
        ELSE IF ~KVHas(store, id, t)
        THEN [ReturnNull(store) EXCEPT !.id = id]
        ELSE LET session == JSONparse(store[id].value) IN
            IF IsExpired(session, t)
            THEN DestroyAndReturnNull(store, id, session, fault)
            ELSE IF IsTimedOut(session, t, config)
            THEN DestroyAndReturnNull(store, id, session, fault)
            ELSE RefreshAndReturn(store, id, session, t, config, fault)

\* The record createSession stores
NewSessionData(email, options, t, config) ==
    [email |-> email,
     createdAt |-> t,
     lastActivity |-> t,
     expiresAt |-> t + OrDefault(options.maxAge, config.session.maxAge),
     userAgent |-> options.userAgent,
     ip |-> options.ip]

\* Mutant: a delete that leaves the record in the store
destroySession_Noop(store, sessionId, fault) ==
    [store |-> store, threw |-> fault = "deleteError"]

\* Mutant: a delete that raises for a key the store does not hold
destroySession_Strict(store, sessionId, fault) ==
    IF fault = "deleteError" \/ sessionId \notin DOMAIN store
    THEN [store |-> store, threw |-> TRUE]
    ELSE [store |-> KVDelete(store, sessionId), threw |-> FALSE]

\* destroySession(env, sessionId): the delete of the key, which the store
\* accepts for a key it does not hold; fault "deleteError" is the store
\* raising
destroySession(store, sessionId, fault) ==
    IF fault = "deleteError"
    THEN [store |-> store, threw |-> TRUE]
    ELSE [store |-> KVDelete(store, sessionId), threw |-> FALSE]

\* A destructured option: the default stands in only for a field that is
\* absent (undefined)
Opt(options, f, default) == IF f \in DOMAIN options THEN options[f] ELSE default

DefaultCookieMaxAge == 604800

\* One attribute of the cookie string, appended when its option is truthy
Attr(on, row) == IF on THEN <<row>> ELSE <<>>

\* createSessionCookie(sessionId, options).  The cookie is the sequence of
\* its "; "-separated rows, a row the sequence of its "="-separated parts;
\* booleans are the truthy and falsy values of httpOnly and secure, "" the
\* falsy string (or null), 0 the falsy number
createSessionCookie(sessionId, options) ==
    LET httpOnly == Opt(options, "httpOnly", TRUE)
        secure == Opt(options, "secure", TRUE)
        sameSite == Opt(options, "sameSite", "Strict")
        maxAge == Opt(options, "maxAge", DefaultCookieMaxAge)
        domain == Opt(options, "domain", "")
        path == Opt(options, "path", "/")
    IN  <<<<"session", sessionId>>>>
        \o Attr(httpOnly, <<"HttpOnly">>)
        \o Attr(secure, <<"Secure">>)
        \o Attr(sameSite # "", <<"SameSite", sameSite>>)
        \o Attr(maxAge # 0, <<"Max-Age", ToString(maxAge)>>)
        \o Attr(domain # "", <<"Domain", domain>>)
        \o Attr(path # "", <<"Path", path>>)

----------------------------------------------------------------------------
(* kv-utils.js *)

\* Mutant: the quota error is re-thrown like any other
safeKVWrite_Rethrow(fault) ==
    IF fault \in {"putQuota", "putError"} THEN "throw" ELSE "ok"

\* Mutant: every error is swallowed
safeKVWrite_Swallow(fault) ==
    IF fault \in {"putQuota", "putError"} THEN "skipped" ELSE "ok"

\* safeKVWrite(writeOperation): "ok" the write was made and true returned,
\* "skipped" the quota error was swallowed and false returned, "throw" any
\* other error is re-thrown
safeKVWrite(fault) ==
    IF fault = "putQuota" THEN "skipped"
    ELSE IF fault = "putError" THEN "throw"
    ELSE "ok"

\* new ThrottledLogger(env, maxLogsPerHour) at time t; maxLogsPerHour is 0
\* when the argument is left out
NewLogger(e, maxLogsPerHour, t) ==
    [maxLogsPerHour |-> OrDefault(maxLogsPerHour, getConfig(e).logging.maxLogsPerHour),
     logCount |-> 0,
     hourStart |-> t]

OneHour == 60 * 60

\* Mutant: the counter is reset on every call
HourElapsed_Always(lg, t) == t - lg.hourStart >= 0

\* if (now - this.hourStart > 60 * 60 * 1000)
HourElapsed(lg, t) == t - lg.hourStart > OneHour

\* "Reset counter every hour": the logger after the reset test of log()
ResetIfElapsed(lg, t) ==
    IF HourElapsed(lg, t) THEN [lg EXCEPT !.logCount = 0, !.hourStart = t] ELSE lg

\* Mutant: the cap lets one more write through
CapReached_OffByOne(lg) == lg.logCount > lg.maxLogsPerHour

\* if (this.logCount >= this.maxLogsPerHour)
CapReached(lg) == lg.logCount >= lg.maxLogsPerHour

\* `throttled_${type}_${now}_${random}`
ThrottledKey(type, t, suffix) == <<"throttled", type, ToString(t), suffix>>

\* logger.log(type, data, expirationTtl) at time t on the namespace audit:
\* the logger and the namespace it leaves, what it returns, and whether it
\* raised.  suffix is the key's random part
ThrottledLog(lg, audit, type, data, expirationTtl, config, t, suffix, fault) ==
    LET ttl == OrDefault(expirationTtl, config.logging.auditLogTtl)
        reset == ResetIfElapsed(lg, t)
        write == safeKVWrite(fault)
        out == [logger |-> reset, audit |-> audit, success |-> FALSE,
                wrote |-> FALSE, threw |-> FALSE, dropped |-> FALSE]
    IN  IF CapReached(reset) THEN [out EXCEPT !.dropped = TRUE]
        ELSE IF write = "throw" THEN [out EXCEPT !.threw = TRUE]
        ELSE IF write = "skipped" THEN out
        ELSE [out EXCEPT
                !.logger = [reset EXCEPT !.logCount = reset.logCount + 1],
                !.audit = KVPut(audit, ThrottledKey(type, t, suffix),
                                JSONstringify([timestamp |-> t, type |-> type,
                                               data |-> data]),
                                ttl, t),
                !.success = TRUE, !.wrote = TRUE]

----------------------------------------------------------------------------
(* ratelimit.js *)

\* `ratelimit_${action}_${identifier}`: a string is the sequence of its
\* "_"-separated parts
RateLimitKey(action, identifier) == <<"ratelimit">> \o action \o identifier

\* Mutant: the stored counter expires a second after it is written
RateLimitTtl_Short(windowMs) == 1

\* Math.ceil(windowMs / 1000) + 60
RateLimitTtl(windowMs) == windowMs + 60

\* Mutant: the newest timestamp for the oldest
SeqMin_Max(q) == CHOOSE x \in {q[i] : i \in 1..Len(q)} : \A i \in 1..Len(q) : x >= q[i]

\* Math.min(...requests)
SeqMin(q) == CHOOSE x \in {q[i] : i \in 1..Len(q)} : \A i \in 1..Len(q) : x <= q[i]

\* Mutant: the timestamp at the start of the window is kept
InWindow_Inclusive(requests, windowStart) ==
    LET keep(ts) == ts >= windowStart IN SelectSeq(requests, keep)

\* Mutant: the window is cut one second short
InWindow_Late(requests, windowStart) ==
    LET keep(ts) == ts > windowStart + 1 IN SelectSeq(requests, keep)

\* parsed.requests.filter(timestamp => timestamp > windowStart)
InWindow(requests, windowStart) ==
    LET keep(ts) == ts > windowStart IN SelectSeq(requests, keep)

\* Mutant: > for >=
LimitExceeded_OffByOne(requests, limit) == Len(requests) > limit

\* if (requests.length >= limit)
LimitExceeded(requests, limit) == Len(requests) >= limit

\* Mutant: the catch block fails closed
FailOpen_Closed(store, limit, failed) ==
    [store |-> store, allowed |-> FALSE, remaining |-> 0,
     hasReset |-> FALSE, resetTime |-> 0, caught |-> TRUE, wrote |-> FALSE,
     failed |-> failed, threw |-> FALSE]

\* return { allowed: true, remaining: limit - 1 } of the catch block, after
\* the store operation `failed` raised
FailOpen(store, limit, failed) ==
    [store |-> store, allowed |-> TRUE, remaining |-> limit - 1,
     hasReset |-> FALSE, resetTime |-> 0, caught |-> TRUE, wrote |-> FALSE,
     failed |-> failed, threw |-> FALSE]

\* Mutant: a rejected call counts itself too
checkRateLimit_CountRejected(store, identifier, action, limit, windowMs, t, fault) ==
    LET key == RateLimitKey(action, identifier)
        present == KVHas(store, key, t)
        requests == IF present
                    THEN InWindow(JSONparse(store[key].value).requests, t - windowMs)
                    ELSE <<>>
        pushed == Append(requests, t)
    IN  [store |-> KVPut(store, key, JSONstringify([requests |-> pushed]),
                         RateLimitTtl(windowMs), t),
         allowed |-> ~LimitExceeded(requests, limit),
         remaining |-> IF LimitExceeded(requests, limit) THEN 0
                       ELSE limit - Len(pushed),
         hasReset |-> TRUE,
         resetTime |-> IF LimitExceeded(requests, limit)
                       THEN SeqMin(requests) + windowMs ELSE t + windowMs,
         caught |-> FALSE, wrote |-> TRUE, failed |-> "none", threw |-> FALSE]

\* checkRateLimit(env, identifier, action, limit, windowMs) at time t; fault
\* names the step of this call that fails if the call gets to it
checkRateLimit(store, identifier, action, limit, windowMs, t, fault) ==
    LET key == RateLimitKey(action, identifier)
        windowStart == t - windowMs
        present == KVHas(store, key, t)
        requests == IF present
                    THEN InWindow(JSONparse(store[key].value).requests, windowStart)
                    ELSE <<>>
        pushed == Append(requests, t)
        write == safeKVWrite(fault)
    IN  IF fault = "getError" THEN FailOpen(store, limit, fault)
        ELSE IF present /\ fault = "parseError" THEN FailOpen(store, limit, fault)
        ELSE IF LimitExceeded(requests, limit)
        THEN [store |-> store, allowed |-> FALSE, remaining |-> 0,
              hasReset |-> TRUE, resetTime |-> SeqMin(requests) + windowMs,
              caught |-> FALSE, wrote |-> FALSE, failed |-> "none",
              threw |-> FALSE]
        ELSE IF write = "throw" THEN FailOpen(store, limit, fault)
        ELSE [store |-> IF write = "ok"
                        THEN KVPut(store, key, JSONstringify([requests |-> pushed]),
                                   RateLimitTtl(windowMs), t)
                        ELSE store,
              allowed |-> TRUE, remaining |-> limit - Len(pushed),
              hasReset |-> TRUE, resetTime |-> t + windowMs,
              caught |-> FALSE, wrote |-> write = "ok",
              failed |-> IF write = "ok" THEN "none" ELSE fault,
              threw |-> FALSE]

\* getClientIP(request): the headers are a record, X-Forwarded-For the
\* sequence of its comma-separated entries
getClientIP(headers) ==
    IF "CFConnectingIP" \in DOMAIN headers /\ headers.CFConnectingIP # ""
    THEN <<headers.CFConnectingIP>>
    ELSE IF "XForwardedFor" \in DOMAIN headers /\ headers.XForwardedFor[1] # ""
    THEN <<headers.XForwardedFor[1]>>
    ELSE <<"127.0.0.1">>

\* Mutant: X-RateLimit-Reset carries the delay, not the reset time
RateLimitHeaders_ResetIsDelay(result, limit, t) ==
    [ContentType |-> "application/json",
     RetryAfter |-> ToString(result.resetTime - t),
     XRateLimitLimit |-> ToString(limit),
     XRateLimitRemaining |-> "0",
     XRateLimitReset |-> ToString(result.resetTime - t)]

\* The headers of the 429 response; t is the Date.now() of its Retry-After
RateLimitHeaders(result, limit, t) ==
    [ContentType |-> "application/json",
     RetryAfter |-> ToString(result.resetTime - t),
     XRateLimitLimit |-> ToString(limit),
     XRateLimitRemaining |-> "0",
     XRateLimitReset |-> ToString(result.resetTime)]

\* What withRateLimit returns for the result of its checkRateLimit call:
\* null, or the 429 response
withRateLimit(result, limit, t) ==
    IF ~result.allowed
    THEN [isNull |-> FALSE, status |-> 429,
          body |-> JSONstringify([error |-> "Rate limit exceeded",
                                  resetTime |-> result.resetTime]),
          headers |-> RateLimitHeaders(result, limit, t)]
    ELSE [isNull |-> TRUE]

----------------------------------------------------------------------------
(* Strings: a string that is parsed is the sequence of its characters *)

\* The characters of each string the model uses
Chars ==
    "jane.doe@a.co" :> <<"j", "a", "n", "e", ".", "d", "o", "e", "@", "a", ".", "c", "o">>
    @@ "Jane.Doe@A.co" :> <<"J", "a", "n", "e", ".", "D", "o", "e", "@", "A", ".", "c", "o">>
    @@ "user@mailinator.com" :> <<"u", "s", "e", "r", "@", "m", "a", "i", "l", "i", "n", "a", "t", "o", "r", ".", "c", "o", "m">>
    @@ "ab1234567@x.com" :> <<"a", "b", "1", "2", "3", "4", "5", "6", "7", "@", "x", ".", "c", "o", "m">>
    @@ "invalid-email" :> <<"i", "n", "v", "a", "l", "i", "d", "-", "e", "m", "a", "i", "l">>
    @@ "test@example.com" :> <<"t", "e", "s", "t", "@", "e", "x", "a", "m", "p", "l", "e", ".", "c", "o", "m">>
    @@ "bob@trashmail.io" :> <<"b", "o", "b", "@", "t", "r", "a", "s", "h", "m", "a", "i", "l", ".", "i", "o">>
    @@ "10minutemail.com" :> <<"1", "0", "m", "i", "n", "u", "t", "e", "m", "a", "i", "l", ".", "c", "o", "m">>
    @@ "guerrillamail.com" :> <<"g", "u", "e", "r", "r", "i", "l", "l", "a", "m", "a", "i", "l", ".", "c", "o", "m">>
    @@ "mailinator.com" :> <<"m", "a", "i", "l", "i", "n", "a", "t", "o", "r", ".", "c", "o", "m">>
    @@ "tempmail.org" :> <<"t", "e", "m", "p", "m", "a", "i", "l", ".", "o", "r", "g">>
    @@ "throwaway.email" :> <<"t", "h", "r", "o", "w", "a", "w", "a", "y", ".", "e", "m", "a", "i", "l">>
    @@ "yopmail.com" :> <<"y", "o", "p", "m", "a", "i", "l", ".", "c", "o", "m">>
    @@ "maildrop.cc" :> <<"m", "a", "i", "l", "d", "r", "o", "p", ".", "c", "c">>
    @@ "example.com" :> <<"e", "x", "a", "m", "p", "l", "e", ".", "c", "o", "m">>
    @@ "test.com" :> <<"t", "e", "s", "t", ".", "c", "o", "m">>
    @@ "fake.com" :> <<"f", "a", "k", "e", ".", "c", "o", "m">>
    @@ "localhost.com" :> <<"l", "o", "c", "a", "l", "h", "o", "s", "t", ".", "c", "o", "m">>
    @@ "# disposable domains" :> <<"#", " ", "d", "i", "s", "p", "o", "s", "a", "b", "l", "e", " ", "d", "o", "m", "a", "i", "n", "s">>
    @@ "trashmail.io" :> <<"t", "r", "a", "s", "h", "m", "a", "i", "l", ".", "i", "o">>
    @@ " Mailinator.com " :> <<" ", "M", "a", "i", "l", "i", "n", "a", "t", "o", "r", ".", "c", "o", "m", " ">>
    @@ "" :> <<>>
    @@ "not a domain" :> <<"n", "o", "t", " ", "a", " ", "d", "o", "m", "a", "i", "n">>

LowerCase ==
    "A" :> "a"
    @@ "B" :> "b"
    @@ "C" :> "c"
    @@ "D" :> "d"
    @@ "E" :> "e"
    @@ "F" :> "f"
    @@ "G" :> "g"
    @@ "H" :> "h"
    @@ "I" :> "i"
    @@ "J" :> "j"
    @@ "K" :> "k"
    @@ "L" :> "l"
    @@ "M" :> "m"
    @@ "N" :> "n"
    @@ "O" :> "o"
    @@ "P" :> "p"
    @@ "Q" :> "q"
    @@ "R" :> "r"
    @@ "S" :> "s"
    @@ "T" :> "t"
    @@ "U" :> "u"
    @@ "V" :> "v"
    @@ "W" :> "w"
    @@ "X" :> "x"
    @@ "Y" :> "y"
    @@ "Z" :> "z"

Letters == {"a", "b", "c", "d", "e", "f", "g", "h", "i", "j", "k", "l", "m", "n", "o", "p", "q", "r", "s", "t", "u", "v", "w", "x", "y", "z"}
Digits == {"0", "1", "2", "3", "4", "5", "6", "7", "8", "9"}

Whitespace == {" "}
WordChars == Letters \cup Digits \cup DOMAIN LowerCase \cup {"_"}

toLowerCase(s) ==
    [i \in 1..Len(s) |-> IF s[i] \in DOMAIN LowerCase THEN LowerCase[s[i]] ELSE s[i]]

\* Mutant: a trim that leaves the string as it is
trim_Identity(s) == s

trim(s) ==
    LET idx == {i \in 1..Len(s) : s[i] \notin Whitespace} IN
    IF idx = {} THEN <<>>
    ELSE SubSeq(s, CHOOSE i \in idx : \A j \in idx : i <= j,
                   CHOOSE i \in idx : \A j \in idx : i >= j)

\* The character at position i, "$" past the end
CharAt(s, i) == IF i \in 1..Len(s) THEN s[i] ELSE "$"

\* The length of the longest run of characters of class C that starts at i
RunLen(s, i, C) ==
    CHOOSE n \in 0..Len(s) :
        /\ \A k \in i..(i + n - 1) : CharAt(s, k) \in C
        /\ CharAt(s, i + n) \notin C

StartsWith(s, p) == Len(s) >= Len(p) /\ SubSeq(s, 1, Len(p)) = p
EndsWith(s, p) == Len(s) >= Len(p) /\ SubSeq(s, Len(s) - Len(p) + 1, Len(s)) = p

Positions(s, c) == {i \in 1..Len(s) : s[i] = c}
SetMin(S) == CHOOSE x \in S : \A y \in S : x <= y

\* s.split(c), as the sequence of the pieces between the occurrences of c
Split(s, c) ==
    LET cuts == Positions(s, c)
        from(k) == IF k = 1 THEN 1
                   ELSE 1 + CHOOSE p \in cuts : Cardinality({q \in cuts : q < p}) = k - 2
        to(k) == IF k = Cardinality(cuts) + 1 THEN Len(s)
                 ELSE (CHOOSE p \in cuts : Cardinality({q \in cuts : q < p}) = k - 1) - 1
    IN  [k \in 1..(Cardinality(cuts) + 1) |-> SubSeq(s, from(k), to(k))]

----------------------------------------------------------------------------
(* email-validation.js *)

FALLBACK_DISPOSABLE_DOMAINS ==
    {Chars[d] : d \in {"10minutemail.com", "guerrillamail.com", "mailinator.com",
                       "tempmail.org", "throwaway.email", "yopmail.com",
                       "maildrop.cc", "example.com", "test.com", "fake.com",
                       "localhost.com"}}

CACHE_DURATION == 24 * 60 * 60

\* /^[^\s@]+@[^\s@]+\.[^\s@]+$/
emailRegex(s) ==
    /\ \A i \in 1..Len(s) : s[i] \notin Whitespace
    /\ Cardinality(Positions(s, "@")) = 1
    /\ LET at == SetMin(Positions(s, "@")) IN
        /\ at > 1
        /\ \E p \in (at + 2)..(Len(s) - 1) : s[p] = "."

\* /^[a-z]{lo,hi}\d{n,}@/ : lo..hi letters, then at least n digits, then @
LettersDigitsAt(s, lo, hi, n) ==
    LET l == RunLen(s, 1, Letters)
        d == RunLen(s, l + 1, Digits)
    IN  l >= lo /\ l <= hi /\ d >= n /\ CharAt(s, l + d + 1) = "@"

\* /^word\d*@/
WordDigitsAt(s, word) ==
    /\ StartsWith(s, word)
    /\ CharAt(s, Len(word) + RunLen(s, Len(word) + 1, Digits) + 1) = "@"

\* /^[a-z]+[._-][a-z]+[._-][a-z]+@/
ThreeWordsAt(s) ==
    LET seps == {".", "_", "-"}
        l1 == RunLen(s, 1, Letters)
        l2 == RunLen(s, l1 + 2, Letters)
        l3 == RunLen(s, l1 + l2 + 3, Letters)
    IN  /\ l1 >= 1 /\ CharAt(s, l1 + 1) \in seps
        /\ l2 >= 1 /\ CharAt(s, l1 + l2 + 2) \in seps
        /\ l3 >= 1 /\ CharAt(s, l1 + l2 + l3 + 3) = "@"

\* SUSPICIOUS_PATTERNS, in order; any match rejects
SUSPICIOUS_PATTERNS(s) ==
    \/ LettersDigitsAt(s, 1, 3, 4)
    \/ RunLen(s, 1, Digits) >= 6 /\ CharAt(s, RunLen(s, 1, Digits) + 1) = "@"
    \/ LettersDigitsAt(s, 1, Len(s), 10)
    \/ WordDigitsAt(s, <<"t", "e", "s", "t">>)
    \/ WordDigitsAt(s, <<"s", "p", "a", "m">>)
    \/ WordDigitsAt(s, <<"f", "a", "k", "e">>)
    \/ WordDigitsAt(s, <<"t", "e", "m", "p">>)
    \/ WordDigitsAt(s, <<"n", "o", "r", "e", "p", "l", "y">>)
    \/ WordDigitsAt(s, <<"i", "n", "f", "o">>)
    \/ LettersDigitsAt(s, 1, 2, 0) /\ RunLen(s, RunLen(s, 1, Letters) + 1, Digits) = 0
    \/ ThreeWordsAt(s)
    \/ \E i, j, k \in 1..Len(s) :
        i < j /\ j < k /\ s[i] = "+" /\ s[j] = "+" /\ s[k] = "@"
    \/ \E i \in 1..(Len(s) - 1) : s[i] = "." /\ s[i + 1] = "."
    \/ \E tld \in {<<".", "r", "u">>, <<".", "t", "k">>, <<".", "m", "l">>,
                   <<".", "g", "a">>, <<".", "c", "f">>} : EndsWith(s, tld)

\* /^\d+\.\w+$/
NumericDomain(domain) ==
    LET d == RunLen(domain, 1, Digits) IN
    /\ d >= 1 /\ CharAt(domain, d + 1) = "."
    /\ Len(domain) >= d + 2
    /\ \A k \in (d + 2)..Len(domain) : domain[k] \in WordChars

\* /^[a-z0-9.-]+\.[a-z]{2,}$/ of the remote list's filter
DomainLine(line) ==
    LET l == Len(line)
        tld == CHOOSE n \in 0..l :
                /\ \A k \in (l - n + 1)..l : line[k] \in Letters
                /\ CharAt(line, l - n) \notin Letters
    IN  /\ tld >= 2 /\ CharAt(line, l - tld) = "."
        /\ l - tld - 1 >= 1
        /\ \A k \in 1..(l - tld - 1) : line[k] \in Letters \cup Digits \cup {".", "-"}

\* text.split('\n').map(trim, toLowerCase).filter(...).filter(regex), as the
\* set new Set(domains) holds
ParseDomainList(lines) ==
    {trim(toLowerCase(lines[i])) : i \in
        {i \in 1..Len(lines) :
            LET line == trim(toLowerCase(lines[i])) IN
            /\ line # <<>>
            /\ CharAt(line, 1) # "#"
            /\ Positions(line, ".") # {}
            /\ DomainLine(line)}}

\* The module's DISPOSABLE_DOMAINS_CACHE is null or a Set
NullCache == [isNull |-> TRUE, domains |-> {}]
SetCache(domains) == [isNull |-> FALSE, domains |-> domains]

\* A catch block that always answers with the hardcoded set
FetchFallback_Hardcoded(cache, ts, store) ==
    [domains |-> FALLBACK_DISPOSABLE_DOMAINS,
     cache |-> cache, ts |-> ts, store |-> store, source |-> "catch",
     threw |-> FALSE]

\* The catch block of fetchDisposableDomains
FetchFallback(cache, ts, store) ==
    [domains |-> IF ~cache.isNull THEN cache.domains ELSE FALLBACK_DISPOSABLE_DOMAINS,
     cache |-> cache, ts |-> ts, store |-> store, source |-> "catch",
     threw |-> FALSE]

\* Mutant: the timestamp is read when the response arrives
FetchRemote_StampOnArrival(envKind, cache, ts, store, t, remote, putF) ==
    IF remote.kind = "throw" \/ ~remote.ok
    THEN FetchFallback(cache, ts, store)
    ELSE LET domains == ParseDomainList(remote.lines) IN
        [domains |-> domains, cache |-> SetCache(domains), ts |-> t + remote.took,
         store |-> IF envKind = "full" /\ putF = "ok"
                   THEN KVPut(store, "disposable_domains_cache",
                              JSONstringify([domains |-> domains,
                                             timestamp |-> t + remote.took]),
                              CACHE_DURATION, t + remote.took)
                   ELSE store,
         source |-> "remote", threw |-> FALSE]

\* The remote fetch and what follows it.  remote is "throw", [ok |-> FALSE]
\* or [ok |-> TRUE, lines |-> ...]; took is the time the awaited fetch takes,
\* so the store's put happens at t + took while the timestamp written is t
FetchRemote(envKind, cache, ts, store, t, remote, putF) ==
    IF remote.kind = "throw" \/ ~remote.ok
    THEN FetchFallback(cache, ts, store)
    ELSE LET domains == ParseDomainList(remote.lines) IN
        [domains |-> domains, cache |-> SetCache(domains), ts |-> t,
         store |-> IF envKind = "full" /\ putF = "ok"
                   THEN KVPut(store, "disposable_domains_cache",
                              JSONstringify([domains |-> domains, timestamp |-> t]),
                              CACHE_DURATION, t + remote.took)
                   ELSE store,
         source |-> "remote", threw |-> FALSE]

\* fetchDisposableDomains(env) at time t.  envKind: "undefined" (no env
\* passed), "noSessions" (env without the SESSIONS binding), "full"
fetchDisposableDomains(envKind, cache, ts, store, t, getF, remote, putF) ==
    IF ~cache.isNull /\ t - ts < CACHE_DURATION
    THEN [domains |-> cache.domains, cache |-> cache, ts |-> ts, store |-> store,
          source |-> "memory", threw |-> FALSE]
    ELSE IF envKind = "undefined"
    THEN FetchFallback(cache, ts, store)
    ELSE IF /\ envKind = "full" /\ getF = "ok"
            /\ KVHas(store, "disposable_domains_cache", t)
            /\ "timestamp" \in DOMAIN JSONparse(store["disposable_domains_cache"].value)
            /\ t - JSONparse(store["disposable_domains_cache"].value).timestamp
                < CACHE_DURATION
    THEN LET parsed == JSONparse(store["disposable_domains_cache"].value) IN
        [domains |-> parsed.domains, cache |-> SetCache(parsed.domains),
         ts |-> parsed.timestamp, store |-> store, source |-> "kv",
         threw |-> FALSE]
    ELSE FetchRemote(envKind, cache, ts, store, t, remote, putF)

Valid == [isValid |-> TRUE]
Invalid(reason) == [isValid |-> FALSE, reason |-> reason]

\* What the tests of validateEmailLegitimacy that read the email alone give
EmailChecks(email) ==
    LET emailLower == trim(toLowerCase(Chars[email]))
        format == email # "" /\ emailRegex(emailLower)
        domain == IF format THEN Split(emailLower, "@")[2] ELSE <<>>
        parts == Split(domain, ".")
    IN  [format |-> format,
         domain |-> domain,
         suspicious |-> format /\ SUSPICIOUS_PATTERNS(emailLower),
         numeric |-> NumericDomain(domain),
         badStructure |-> Len(parts) < 2 \/ Len(parts[Len(parts)]) < 2]

\* EmailChecks, computed once for each string of the model
EmailTable == [email \in DOMAIN Chars |-> EmailChecks(email)]

\* The checks after the lookup, without the test of SUSPICIOUS_PATTERNS
AfterLookup_NoPatterns(checks, disposableDomains) ==
    IF checks.domain \in disposableDomains
    THEN [isValid |-> FALSE, reason |-> "Disposable email address not allowed"]
    ELSE IF checks.numeric
    THEN [isValid |-> FALSE, reason |-> "Numeric domains not allowed"]
    ELSE IF checks.badStructure
    THEN [isValid |-> FALSE, reason |-> "Invalid domain structure"]
    ELSE [isValid |-> TRUE]

\* The checks of validateEmailLegitimacy that follow the blocklist lookup
AfterLookup(checks, disposableDomains) ==
    IF checks.domain \in disposableDomains
    THEN Invalid("Disposable email address not allowed")
    ELSE IF checks.suspicious
    THEN Invalid("Email pattern not allowed")
    ELSE IF checks.numeric
    THEN Invalid("Numeric domains not allowed")
    ELSE IF checks.badStructure
    THEN Invalid("Invalid domain structure")
    ELSE Valid

\* The body of validateEmailLegitimacy, given what the tests on the email
\* alone give (checks) and what the awaited fetchDisposableDomains gives (f),
\* which is asked for only past the format and domain tests
ValidateWith(email, checks, f, cache, ts, store) ==
    LET same(v) == [verdict |-> v, cache |-> cache, ts |-> ts, store |-> store,
                    source |-> "none", list |-> {}, threw |-> FALSE]
    IN  IF email = "" THEN same(Invalid("Invalid email format"))
        ELSE IF ~checks.format THEN same(Invalid("Invalid email format"))
        ELSE IF checks.domain = <<>> THEN same(Invalid("Invalid domain"))
        ELSE [verdict |-> AfterLookup(checks, f.domains),
              cache |-> f.cache, ts |-> f.ts, store |-> f.store,
              source |-> f.source, list |-> f.domains, threw |-> f.threw]

\* validateEmailLegitimacy(email, env) at time t: the verdict its promise
\* resolves to and the state it leaves.  email is "" when absent
validateEmailLegitimacy(email, envKind, cache, ts, store, t, getF, remote, putF) ==
    ValidateWith(email, EmailTable[email],
                 fetchDisposableDomains(envKind, cache, ts, store, t,
                                        getF, remote, putF),
                 cache, ts, store)

\* getEmailErrorMessage(reason); reason is "undefined" when the object read
\* has no reason
getEmailErrorMessage(reason) ==
    CASE reason \in {"Invalid email format", "Invalid domain"} ->
            "Please enter a valid email address."
      [] reason = "Disposable email address not allowed" ->
            "Temporary or disposable email addresses are not allowed. Please use a permanent email address."
      [] reason = "Email pattern not allowed" ->
            "This email format is not allowed. Please use a different email address."
      [] reason = "Domain too short" ->
            "Please use an email with a valid domain name."
      [] reason = "Numeric domains not allowed" ->
            "Please use an email with a standard domain name."
      [] reason = "Invalid domain structure" ->
            "Please enter a valid email address with a proper domain."
      [] OTHER -> "Please enter a valid email address."

----------------------------------------------------------------------------
(* audit.js *)

\* Mutant: the key without the time of the write
AuditKey_NoTime(t, rnd) == <<"audit", "", rnd>>

\* `audit:${now}:${random}`: the time of the write and six random characters
AuditKey(t, rnd) == <<"audit", ToString(t), rnd>>

\* logSecurityEvent(env, event, details) at time t: the AUDIT namespace it
\* leaves; it returns nothing and its catch lets no error out.  rnd is the
\* key's random suffix
logSecurityEvent(audit, hasAudit, event, details, config, t, rnd, fault) ==
    IF ~hasAudit THEN audit
    ELSE IF safeKVWrite(fault) = "ok"
    THEN KVPut(audit, AuditKey(t, rnd),
               JSONstringify([event |-> event, details |-> details, time |-> t,
                              ip |-> details.ip]),
               config.logging.auditLogTtl, t)
    ELSE audit

\* Mutant: the catch block lets the error out
LogCatch_Rethrow(audit) ==
    [audit |-> audit, wrote |-> FALSE, caught |-> TRUE, threw |-> TRUE]

\* The catch block of logSecurityEvent: console.error, and a normal return
LogCatch(audit) ==
    [audit |-> audit, wrote |-> FALSE, caught |-> TRUE, threw |-> FALSE]

\* How a logSecurityEvent call ends: the namespace it leaves, whether it
\* wrote, whether its catch block ran, and whether it raised to its caller
logSecurityEventOutcome(audit, hasAudit, event, details, config, t, rnd, fault) ==
    LET after == logSecurityEvent(audit, hasAudit, event, details, config, t,
                                  rnd, fault)
    IN  IF hasAudit /\ safeKVWrite(fault) = "throw"
        THEN LogCatch(after)
        ELSE [audit |-> after,
              wrote |-> hasAudit /\ safeKVWrite(fault) = "ok",
              caught |-> FALSE, threw |-> FALSE]

\* logSystemEvent(env, event, metadata): the details it passes on
SystemEventDetails(event, metadata) == [event |-> event, ip |-> metadata.ip]

\* logUserAction(env, action, userId, metadata): the details it passes on
UserActionDetails(action, userId, metadata) ==
    [action |-> action, userId |-> userId, ip |-> metadata.ip]

\* logUserAction(env, action, userId, metadata)
logUserAction(audit, hasAudit, action, userId, metadata, config, t, rnd, fault) ==
    logSecurityEvent(audit, hasAudit, "user_action",
                     [action |-> action, userId |-> userId, ip |-> metadata.ip],
                     config, t, rnd, fault)

\* email-validation.js: `email_validation_${Date.now()}_${random}`
EmailValidationKey(t, suffix) == <<"email_validation", ToString(t), suffix>>

ThirtyDays == 30 * 24 * 60 * 60

\* The domain logEmailValidation records: email.split('@')[1]?.toLowerCase()
LoggedDomain(email) ==
    IF Len(Split(Chars[email], "@")) >= 2
    THEN toLowerCase(Split(Chars[email], "@")[2])
    ELSE <<"null">>

\* logEmailValidation(env, email, result, ip, action) at time t: the
\* namespace it leaves.  Only rejections are logged; every error of the put
\* is caught
logEmailValidation(audit, hasAudit, email, result, ip, action, t, suffix, fault) ==
    IF ~hasAudit THEN audit
    ELSE IF result.isValid THEN audit
    ELSE IF fault # "ok" THEN audit
    ELSE KVPut(audit, EmailValidationKey(t, suffix),
               JSONstringify([timestamp |-> t, type |-> "email_validation",
                              action |-> action,
                              email |-> toLowerCase(Chars[email]), ip |-> ip,
                              result |-> [isValid |-> result.isValid,
                                          reason |-> IF "reason" \in DOMAIN result
                                                     THEN result.reason
                                                     ELSE "null"],
                              domain |-> LoggedDomain(email)]),
               ThirtyDays, t)

----------------------------------------------------------------------------
(* email.js *)

\* The registry as the module creates it: a provider is named by what its
\* implementation does
BuiltinProviders == [n \in {"brevo", "ses", "smtp2go"} |-> n]

\* emailProviders is an object literal: a name it does not hold itself is
\* looked up in Object.prototype, whose methods are functions that return
\* without raising when called with sendEmail's arguments, and whose
\* __proto__ is an object that cannot be called
InheritedFunctions == {"constructor", "toString", "valueOf", "hasOwnProperty"}
InheritedObjects == {"__proto__"}

\* emailProviders[provider]: "undefined", or what the value does when called
LookupProvider(providers, provider) ==
    IF provider \in DOMAIN providers THEN providers[provider]
    ELSE IF provider \in InheritedFunctions THEN "inherited"
    ELSE IF provider \in InheritedObjects THEN "notCallable"
    ELSE "undefined"

\* The awaited call of an implementation.  net is what its HTTP request
\* does: "ok", "notOk" (response.ok false) or "throw"
CallProvider(impl, net) ==
    CASE impl \in {"brevo", "smtp2go"} ->
            IF net = "ok" THEN [threw |-> FALSE, returned |-> "true"]
            ELSE [threw |-> TRUE, returned |-> "none"]
      [] impl = "ses" -> [threw |-> TRUE, returned |-> "none"]
      [] impl = "returnsTrue" -> [threw |-> FALSE, returned |-> "true"]
      [] impl = "returnsFalse" -> [threw |-> FALSE, returned |-> "false"]
      [] impl = "throws" -> [threw |-> TRUE, returned |-> "none"]
      [] impl = "inherited" -> [threw |-> FALSE, returned |-> "other"]
      [] impl = "notCallable" -> [threw |-> TRUE, returned |-> "none"]

\* The catch block of sendEmail
SendCatch == [result |-> FALSE, threw |-> FALSE]

\* sendEmail(env, ...) of the provider-agnostic module.  hasEnv: env is an
\* object; EMAIL_PROVIDER is "" when unset
sendEmail(providers, hasEnv, EMAIL_PROVIDER, net) ==
    LET provider == IF EMAIL_PROVIDER # "" THEN EMAIL_PROVIDER ELSE "brevo"
        impl == LookupProvider(providers, provider)
        none == [called |-> FALSE, provider |-> provider, impl |-> "undefined",
                 returned |-> "none", providerThrew |-> FALSE]
    IN  IF ~hasEnv THEN none @@ SendCatch
        ELSE IF impl = "undefined" THEN none @@ SendCatch
        ELSE IF CallProvider(impl, net).threw
        THEN [none EXCEPT !.called = TRUE, !.impl = impl, !.providerThrew = TRUE]
             @@ SendCatch
        ELSE [none EXCEPT !.called = TRUE, !.impl = impl,
                          !.returned = CallProvider(impl, net).returned]
             @@ [result |-> TRUE, threw |-> FALSE]

\* addEmailProvider(name, implementation)
addEmailProvider(providers, name, implementation) ==
    [n \in DOMAIN providers \cup {name} |->
        IF n = name THEN implementation ELSE providers[n]]

\* sendEmail(env, ...) of src/lib/email.js, which knows Brevo alone
sendEmailBrevo(hasEnv, net) ==
    IF ~hasEnv THEN SendCatch
    ELSE IF net = "throw" THEN SendCatch
    ELSE IF net = "notOk" THEN [result |-> FALSE, threw |-> FALSE]
    ELSE [result |-> TRUE, threw |-> FALSE]

----------------------------------------------------------------------------
(* worker.js *)

Response(status, body) == [status |-> status, body |-> body, location |-> ""]
Redirect(url, status) == [status |-> status, body |-> "", location |-> url]

\* The Promise an async function returns, when it is not awaited
PromiseOf(value) == [promiseOf |-> value]

\* obj.f read as a condition, and obj.f ("undefined" when obj has no f)
PropTruthy(obj, f) == f \in DOMAIN obj /\ obj[f] = TRUE
Prop(obj, f) == IF f \in DOMAIN obj THEN obj[f] ELSE "undefined"

\* validateEmailLegitimacy(email), as both handlers call it: no env, and the
\* Promise is not awaited
CallValidator(email, cache, ts, sessions, t) ==
    validateEmailLegitimacy(email, "undefined", cache, ts, sessions, t,
                            "ok", [kind |-> "throw"], "ok")

\* handleSignup(request, env) at time t, for a POST.  form holds the fields
\* email, password, website ("" for a field that is absent; website as its
\* characters)
\* v is what the call of validateEmailLegitimacy at the top of the handler does
SignupWith(v, form, ip, config, users, audit, cache, ts, sessions, t, rnd, fault) ==
    LET emailValidation == PromiseOf(v.verdict)
        out == [users |-> users, audit |-> audit, cache |-> v.cache, ts |-> v.ts,
                sessions |-> v.store, validated |-> TRUE, verdict |-> v.verdict,
                response |-> Response(500, "")]
    IN  IF form.website # <<>> /\ trim(form.website) # <<>>
        THEN [out EXCEPT
                !.audit = logSecurityEvent(audit, TRUE, "signup_honeypot_triggered",
                                           [email |-> form.email, ip |-> ip],
                                           config, t, rnd, fault),
                !.cache = cache, !.ts = ts, !.sessions = sessions,
                !.validated = FALSE,
                !.response = Redirect("/login?message=Account created! Please log in.", 302)]
        ELSE IF ~PropTruthy(emailValidation, "isValid")
        THEN [out EXCEPT
                !.response = Response(400,
                    getEmailErrorMessage(Prop(emailValidation, "reason")))]
        ELSE IF KVHas(users, form.email, t)
        THEN [out EXCEPT
                !.audit = logSecurityEvent(audit, TRUE, "signup_existing_email",
                                           [email |-> form.email, ip |-> ip],
                                           config, t, rnd, fault),
                !.response = Response(400, "An account with this email already exists.")]
        ELSE [out EXCEPT
                !.users = KVPutForever(users, form.email,
                            JSONstringify([email |-> form.email,
                                           password |-> form.password,
                                           createdAt |-> t, verified |-> TRUE])),
                !.audit = logUserAction(audit, TRUE, "signup_success", form.email,
                                        [ip |-> ip], config, t, rnd, fault),
                !.response = Redirect("/login?message=Account created! Please log in.", 302)]

handleSignupPost(form, ip, config, users, audit, cache, ts, sessions, t, rnd, fault) ==
    SignupWith(CallValidator(form.email, cache, ts, sessions, t),
               form, ip, config, users, audit, cache, ts, sessions, t, rnd, fault)

\* handleContact(request, env) at time t.  body is the request's JSON body
\* ([json |-> FALSE] when it does not parse), turnstile the outcome of the
\* siteverify call, v what the call of validateEmailLegitimacy does when the
\* handler gets to it
ContactWith(v, method, body, e, cache, ts, sessions, t, turnstile) ==
    LET out == [cache |-> cache, ts |-> ts, sessions |-> sessions, threw |-> FALSE,
                validated |-> FALSE, verdict |-> Valid, response |-> Response(500, "")]
    IN  IF method # "POST"
        THEN [out EXCEPT !.response = Response(405, "Method Not Allowed")]
        ELSE IF ~body.json
        THEN [out EXCEPT !.response = Response(400, "Invalid JSON")]
        ELSE IF body.name = "" \/ body.email = "" \/ body.message = ""
                \/ body.turnstileToken = ""
        THEN [out EXCEPT !.response = Response(400, "Missing fields")]
        ELSE LET emailCheck == PromiseOf(v.verdict)
                 called == [out EXCEPT !.cache = v.cache, !.ts = v.ts,
                                       !.sessions = v.store, !.validated = TRUE,
                                       !.verdict = v.verdict]
             IN  IF ~PropTruthy(emailCheck, "isValid")
                 THEN [called EXCEPT !.response = Response(400, "Invalid email")]
                 ELSE IF e.TURNSTILE_SECRET_KEY = ""
                 THEN [called EXCEPT !.response =
                        Response(500, "Server misconfigured: missing Turnstile secret")]
                 ELSE IF turnstile = "throw"
                 THEN [called EXCEPT !.threw = TRUE]
                 ELSE IF turnstile # "success"
                 THEN [called EXCEPT !.response =
                        Response(403, "Turnstile verification failed")]
                 ELSE [called EXCEPT !.response = Response(200, "Message sent!")]

handleContact(method, body, e, cache, ts, sessions, t, turnstile) ==
    ContactWith(CallValidator(IF body.json THEN body.email ELSE "", cache, ts,
                              sessions, t),
                method, body, e, cache, ts, sessions, t, turnstile)

\* The headers of a response: a function from the names to the values
NoHeaders == [h \in {} |-> ""]
TextPlain == "Content-Type" :> "text/plain; charset=utf-8"
TextHtml == "Content-Type" :> "text/html; charset=utf-8"

\* A response of the fetch handler; cookie is its Set-Cookie header, <<>>
\* when it has none
Reply(status, body, headers) ==
    [status |-> status, body |-> body, headers |-> headers, cookie |-> <<>>]

\* Response.redirect(url, status)
RedirectReply(url, status) == Reply(status, "", "Location" :> url)

\* The response of handleSignup or handleContact as the fetch handler
\* passes it on
FromResponse(r) ==
    IF r.location # "" THEN RedirectReply(r.location, r.status)
    ELSE Reply(r.status, r.body, NoHeaders)

SecurityHeaders ==
    ("X-Content-Type-Options" :> "nosniff")
    @@ ("X-Frame-Options" :> "DENY")
    @@ ("X-XSS-Protection" :> "1; mode=block")
    @@ ("Referrer-Policy" :> "strict-origin-when-cross-origin")
    @@ ("Content-Security-Policy" :>
            "default-src 'self'; script-src 'self' 'unsafe-inline'; style-src 'self' 'unsafe-inline'; img-src 'self' data:;")

\* addSecurityHeaders(response): a copy of the response with the five
\* headers set, whatever it held under these names
addSecurityHeaders(response) ==
    [response EXCEPT !.headers = SecurityHeaders @@ @]

\* The messages of the errors the model raises; the first is the one
\* isKVLimitError looks for
KVLimitMessage == "KV put() limit exceeded"
InvalidUrlMessage == "Invalid URL string."
ImmutableHeadersMessage == "Can't modify immutable headers."
StoreMessages == {"Network connection lost.", "KV GET failed: 500 Internal Server Error"}

\* isKVLimitError(error), for an error with that message
isKVLimitError(message) == message = KVLimitMessage

\* createKVLimitErrorResponse()
createKVLimitErrorResponse ==
    Reply(503, "Service Temporarily Unavailable", TextHtml)

\* The catch block of the fetch handler, for an error with that message
WorkerCatch(message) ==
    IF isKVLimitError(message)
    THEN addSecurityHeaders(createKVLimitErrorResponse)
    ELSE Reply(500, "Server Error: " \o message, TextPlain)

\* What the body of the try block comes to: a response returned or an error
\* thrown, with the namespaces and the module's cache as they are left (st)
\* and the identifier of the session that was destroyed, if one was
Done(reply, st, destroyed) ==
    [threw |-> FALSE, message |-> "", reply |-> reply, st |-> st,
     destroyed |-> destroyed]
Raise(message, st, destroyed) ==
    [threw |-> TRUE, message |-> message, reply |-> Reply(0, "", NoHeaders),
     st |-> st, destroyed |-> destroyed]

\* The /signup route after withRateLimit's checkRateLimit call (rlr) and,
\* for a POST that gets there, handleSignup's work (r)
RouteSignup(rlr, r, request, st, t, in) ==
    LET st2 == [st EXCEPT !.audit = rlr.store]
        st3 == [st2 EXCEPT !.users = r.users, !.audit = r.audit,
                           !.cache = r.cache, !.ts = r.ts,
                           !.sessions = r.sessions]
    IN  IF ~rlr.allowed
        THEN Done(addSecurityHeaders(
                    Reply(429, withRateLimit(rlr, 5, t).body,
                          withRateLimit(rlr, 5, t).headers)), st2, "")
        ELSE IF request.method = "GET"
        THEN Done(addSecurityHeaders(Reply(200, "Sign Up", TextHtml)), st2, "")
        ELSE IF in.formF = "throw" THEN Raise(in.msg, st2, "")
        ELSE IF r.response.location # "" /\ in.platform = "relativeUrl"
        THEN Raise(InvalidUrlMessage, st3, "")
        ELSE Done(addSecurityHeaders(FromResponse(r.response)), st3, "")

\* The /logout route after getSession (s), destroySession (d) and
\* logUserAction (audit is the namespace it leaves)
RouteLogout(s, d, audit, st, in) ==
    LET st2 == IF s.found THEN [st EXCEPT !.sessions = d.store, !.audit = audit]
               ELSE st
        gone == IF s.found THEN s.id ELSE ""
        response == RedirectReply("/", 302)
    IN  IF s.found /\ d.threw THEN Raise(in.msg, st, "")
        ELSE IF in.platform = "relativeUrl" THEN Raise(InvalidUrlMessage, st2, gone)
        ELSE IF in.platform = "immutableHeaders"
        THEN Raise(ImmutableHeadersMessage, st2, gone)
        ELSE Done(addSecurityHeaders(
                    [response EXCEPT
                        !.cookie = createSessionCookie("", [maxAge |-> 0])]),
                  st2, gone)

\* The /api/contact route for a POST, after handleContact's work (r)
RouteContact(r, st, in) ==
    LET st2 == [st EXCEPT !.cache = r.cache, !.ts = r.ts, !.sessions = r.sessions]
    IN  IF r.threw THEN Raise(in.msg, st2, "")
        ELSE Done(addSecurityHeaders(FromResponse(r.response)), st2, "")

\* The try block of the fetch handler from the getSession call on (s is
\* what that call does), at time t.  in holds what the request carries
\* besides its URL and what the store and the runtime do during the call
FetchRoutes(s, request, e, st0, t, in) ==
    LET st == [st0 EXCEPT !.sessions = s.store]
        pathname == request.pathname
        ip == getClientIP(request.headers)
    IN  IF s.threw THEN Raise(in.msg, st, "")
        ELSE IF pathname = "/"
        THEN Done(addSecurityHeaders(Reply(200, "Your App", TextHtml)), st, "")
        ELSE IF pathname = "/signup"
        THEN RouteSignup(
                checkRateLimit(st.audit, ip, <<"signup">>, 5, 60 * 60, t, in.rlF),
                handleSignupPost(in.form, ip, getConfig(e), st.users,
                    checkRateLimit(st.audit, ip, <<"signup">>, 5, 60 * 60, t,
                                   in.rlF).store,
                    st.cache, st.ts, st.sessions, t, in.rnd, in.auditF),
                request, st, t, in)
        ELSE IF pathname = "/login"
        THEN Done(Reply(200, "Login page - TODO", TextPlain), st, "")
        ELSE IF pathname = "/logout"
        THEN RouteLogout(s,
                destroySession(st.sessions, s.id, in.dF),
                logUserAction(st.audit, TRUE, "logout", s.session.email,
                              [ip |-> ""], getConfig(e), t, in.rnd, in.auditF),
                st, in)
        ELSE IF pathname = "/dashboard"
        THEN IF s.found
             THEN Done(Reply(200, "Dashboard - TODO", TextPlain), st, "")
             ELSE IF in.platform = "relativeUrl"
             THEN Raise(InvalidUrlMessage, st, "")
             ELSE Done(RedirectReply("/login", 302), st, "")
        ELSE IF pathname = "/api/contact" /\ request.method = "POST"
        THEN RouteContact(handleContact(request.method, in.body, e, st.cache,
                                        st.ts, st.sessions, t, in.turnstile),
                          st, in)
        ELSE Done(Reply(404, "Not Found", TextPlain), st, "")

\* What the handler returns for what its try block comes to
FetchReturn(o) ==
    [reply |-> IF o.threw THEN WorkerCatch(o.message) ELSE o.reply,
     caught |-> o.threw, message |-> o.message, st |-> o.st,
     destroyed |-> o.destroyed]

\* fetch(request, env) at time t
fetch(request, e, st, t, in) ==
    IF request.protocol = "http" /\ ~request.forwardedProto
    THEN FetchReturn(Done(RedirectReply("https://app" \o request.pathname, 301),
                          st, ""))
    ELSE FetchReturn(
            FetchRoutes(getSession(st.sessions, request.headers, t, getConfig(e),
                                   in.sF),
                        request, e, st, t, in))

----------------------------------------------------------------------------
(* Inputs *)

SessionIds == {"s1"}
CacheKey == "disposable_domains_cache"

\* No entry set but the Turnstile secret; TURNSTILE_SECRET_KEY is "" when unset
DefaultEnv ==
    [SESSION_MAX_AGE |-> 0, SESSION_TIMEOUT |-> 0, SESSION_EXPIRATION_TTL |-> 0,
     AUDIT_LOG_TTL |-> 0, MAX_LOGS_PER_HOUR |-> 0,
     TURNSTILE_SECRET_KEY |-> "secret"]
ShortEnv ==
    [SESSION_MAX_AGE |-> 1200, SESSION_TIMEOUT |-> 600,
     SESSION_EXPIRATION_TTL |-> 3600, AUDIT_LOG_TTL |-> 0,
     MAX_LOGS_PER_HOUR |-> 0,
     TURNSTILE_SECRET_KEY |-> "secret"]
NoSecretEnv == [DefaultEnv EXCEPT !.TURNSTILE_SECRET_KEY = ""]
LoggerEnv == [DefaultEnv EXCEPT !.MAX_LOGS_PER_HOUR = 2]
Envs == {DefaultEnv, ShortEnv}

\* createSession's callers: a login without options, one with all of them
CreateInputs ==
    {[email |-> "alice@corp.io",
      options |-> [maxAge |-> 0, userAgent |-> "", ip |-> ""]],
     [email |-> "Bob@Corp.io",
      options |-> [maxAge |-> 900, userAgent |-> "UA", ip |-> "1.2.3.4"]]}

CookieIds == SessionIds \cup {CacheKey, "unknown"}

Requests ==
    {[Host |-> "app"], [Host |-> "app", Cookie |-> << <<"theme", "dark">> >>]}
    \cup {[Host |-> "app", Cookie |-> << <<"theme", "dark">>, <<"session", id>> >>] :
            id \in CookieIds}

SessionFaults == {"ok", "getError", "putQuota", "putError", "deleteError"}

RateActions == {<<"signup">>}
Identifiers == {<<"1.2.3.4">>, <<"5.6.7.8">>}
RateKeys == {RateLimitKey(a, i) : a \in RateActions, i \in Identifiers}
Windows == {3, 900}
RateFaults == {"ok", "getError", "parseError", "putQuota", "putError"}
\* The headers getClientIP reads
RateRequests ==
    {[CFConnectingIP |-> "1.2.3.4", XForwardedFor |-> <<"5.6.7.8">>],
     [CFConnectingIP |-> "", XForwardedFor |-> <<"1.2.3.4", "9.9.9.9">>],
     [Host |-> "app"]}
\* Calls of the three audit functions
LogCalls ==
    {[via |-> "logSecurityEvent", event |-> "login_failed",
      details |-> [email |-> "alice@corp.io", ip |-> "1.2.3.4"]],
     [via |-> "logUserAction", event |-> "user_action",
      details |-> UserActionDetails("signup_success", "alice@corp.io",
                                    [ip |-> "1.2.3.4"])],
     [via |-> "logSystemEvent", event |-> "system_event",
      details |-> SystemEventDetails("deploy", [ip |-> ""])]}
\* Requests the runtime serves at once
Processes == {"p1", "p2"}

Emails == {"jane.doe@a.co", "Jane.Doe@A.co", "user@mailinator.com",
           "ab1234567@x.com", "invalid-email", "test@example.com",
           "bob@trashmail.io"}

\* POST /signup forms: the honeypot left empty, blank, and filled in
SignupForms ==
    {[email |-> e, password |-> "pw", website |-> <<>>] : e \in Emails \cup {""}}
    \cup {[email |-> "jane.doe@a.co", password |-> "pw", website |-> <<" ">>],
          [email |-> "bob@trashmail.io", password |-> "pw", website |-> <<"x">>]}

ContactBodies ==
    {[json |-> FALSE]}
    \cup {[json |-> TRUE, name |-> "Ann", email |-> e, message |-> "hi",
           turnstileToken |-> "tok"] : e \in Emails}
    \cup {[json |-> TRUE, name |-> "Ann", email |-> "jane.doe@a.co",
           message |-> "hi", turnstileToken |-> ""]}

TurnstileOutcomes == {"success", "failure", "throw"}

Rands == {"r1", "r2"}

\* What the fetch of the remote list gives
RemoteLines ==
    <<Chars["# disposable domains"], Chars["trashmail.io"],
      Chars[" Mailinator.com "], Chars[""], Chars["not a domain"]>>
Remotes ==
    {[kind |-> "throw"],
     [kind |-> "response", ok |-> FALSE, lines |-> <<>>, took |-> 0],
     [kind |-> "response", ok |-> TRUE, lines |-> RemoteLines, took |-> 0],
     [kind |-> "response", ok |-> TRUE, lines |-> <<Chars["# disposable domains"]>>,
      took |-> 0]}
\* The same, with a fetch that takes a second to answer
MailRemotes ==
    {[kind |-> "throw"],
     [kind |-> "response", ok |-> FALSE, lines |-> <<>>, took |-> 0],
     [kind |-> "response", ok |-> TRUE, lines |-> RemoteLines, took |-> 1]}

\* The clock advances by one of the delays the session checks compare with
SessionSteps(e) ==
    {1, fiveMinutes, getConfig(e).session.timeout, getConfig(e).session.maxAge}

----------------------------------------------------------------------------
(* auth.js *)

\* `user:${email}` and `user_by_id:${id}`; the store compares keys
\* character by character
UserKey(email) == <<"user", email>>
UserIdKey(id) == <<"user_by_id", id>>

\* crypto.randomUUID(): the n-th identifier drawn
UserId(n) == <<"uuid", n>>

\* A value that is null
NoValue == [isNull |-> TRUE]

\* getFromKV(namespace, key): the parsed value, null for an absent key
getFromKV(ns, key) ==
    IF key \in DOMAIN ns THEN JSONparse(ns[key].value) ELSE NoValue

\* saveToKV(namespace, key, value): the value as JSON, without expiry
saveToKV(ns, key, value) == KVPutForever(ns, key, JSONstringify(value))

\* hashPassword(password) and verifyPassword(password, hash)
hashPassword(password) == <<"hash", password>>
verifyPassword(password, hash) == hash = hashPassword(password)

\* isValidEmail(email, 'signup'): an address of the right form passes
isValidEmail(email) == [isValid |-> EmailTable[email].format]

\* auditLog(env, entry): one event under a fresh audit key, with the TTL of
\* audit events
auditLog(audit, entry, t, rnd) ==
    KVPut(audit, AuditKey(t, rnd), JSONstringify(entry), DefaultAuditLogTtl, t)

\* What registerUser and loginUser return of a user
PublicUser(user) ==
    [id |-> user.id, email |-> user.email, verified |-> user.verified,
     plan |-> user.plan]

Failure(users, audit, error) ==
    [users |-> users, audit |-> audit,
     result |-> [success |-> FALSE, error |-> error]]

\* The key loginUser reads: `user:${email.toLowerCase()}`
LoginKey(email) == UserKey(toLowerCase(Chars[email]))

\* The key deleteUser deletes: `user:${user.email}`
DeleteKey(userRef, user) == UserKey(user.email)

\* registerUser(email, password, env, request) with id the UUID it draws.
\* fault: "ok", "get" (the lookup raises), "put1", "put2" (the first or the
\* second save raises)
registerUser(users, audit, email, password, id, t, rnd, fault) ==
    IF ~isValidEmail(email).isValid
    THEN Failure(users,
                 auditLog(audit, [action |-> "register_failed", email |-> email,
                                  reason |-> "invalid"], t, rnd),
                 "Invalid email address")
    ELSE IF fault = "get"
    THEN Failure(users, audit, "Registration failed")
    ELSE IF getFromKV(users, UserKey(Chars[email])) # NoValue
    THEN Failure(users,
                 auditLog(audit, [action |-> "register_failed", email |-> email,
                                  reason |-> "email_exists"], t, rnd),
                 "User already exists")
    ELSE LET user == [id |-> id, email |-> toLowerCase(Chars[email]),
                      password |-> hashPassword(password), createdAt |-> t,
                      verified |-> FALSE, plan |-> "free"]
             first == saveToKV(users, UserKey(Chars[email]), user)
             second == saveToKV(first, UserIdKey(id), [email |-> Chars[email]])
         IN  IF fault = "put1" THEN Failure(users, audit, "Registration failed")
             ELSE IF fault = "put2" THEN Failure(first, audit, "Registration failed")
             ELSE [users |-> second,
                   audit |-> auditLog(audit, [action |-> "user_registered",
                                              userId |-> id, email |-> email],
                                      t, rnd),
                   result |-> [success |-> TRUE, user |-> PublicUser(user)]]

\* loginUser(email, password, env, request); fault: "ok" or "get"
loginUser(users, audit, email, password, t, rnd, fault) ==
    IF fault = "get" THEN Failure(users, audit, "Login failed")
    ELSE LET user == getFromKV(users, LoginKey(email)) IN
        IF user = NoValue
        THEN Failure(users,
                     auditLog(audit, [action |-> "login_failed", email |-> email,
                                      reason |-> "user_not_found"], t, rnd),
                     "Invalid credentials")
        ELSE IF ~verifyPassword(password, user.password)
        THEN Failure(users,
                     auditLog(audit, [action |-> "login_failed", userId |-> user.id,
                                      email |-> email,
                                      reason |-> "invalid_password"], t, rnd),
                     "Invalid credentials")
        ELSE [users |-> users,
              audit |-> auditLog(audit, [action |-> "user_login",
                                         userId |-> user.id, email |-> email],
                                 t, rnd),
              result |-> [success |-> TRUE, user |-> PublicUser(user)]]

\* getUserById(userId, env): the user without the password, or null
getUserById(users, userId, fault) ==
    IF fault = "get" THEN NoValue
    ELSE LET userRef == getFromKV(users, UserIdKey(userId)) IN
        IF userRef = NoValue THEN NoValue
        ELSE LET user == getFromKV(users, UserKey(userRef.email)) IN
            IF user = NoValue THEN NoValue
            ELSE [f \in DOMAIN user \ {"password"} |-> user[f]]

\* deleteUser(userId, env, request); fault: "ok", "get", "delete1",
\* "delete2" (the first or the second delete raises)
deleteUser(users, audit, userId, t, rnd, fault) ==
    IF fault = "get" THEN Failure(users, audit, "Account deletion failed")
    ELSE LET userRef == getFromKV(users, UserIdKey(userId)) IN
        IF userRef = NoValue THEN Failure(users, audit, "User not found")
        ELSE LET user == getFromKV(users, UserKey(userRef.email)) IN
            IF user = NoValue THEN Failure(users, audit, "User not found")
            ELSE IF fault = "delete1"
            THEN Failure(users, audit, "Account deletion failed")
            ELSE IF fault = "delete2"
            THEN Failure(KVDelete(users, DeleteKey(userRef, user)), audit,
                         "Account deletion failed")
            ELSE [users |-> KVDelete(KVDelete(users, DeleteKey(userRef, user)),
                                     UserIdKey(userId)),
                  audit |-> auditLog(audit, [action |-> "user_deleted",
                                             userId |-> userId,
                                             email |-> user.email], t, rnd),
                  result |-> [success |-> TRUE]]

----------------------------------------------------------------------------
(* Actions *)

\* The state of a fresh deployment: empty namespaces, the module's cache
\* not loaded
Fresh ==
    /\ now = T0
    /\ ticks = 0
    /\ SESSIONS = <<>>
    /\ issued = <<>>
    /\ AUDIT = <<>>
    /\ USERS = <<>>
    /\ DISPOSABLE_DOMAINS_CACHE = NullCache
    /\ CACHE_TIMESTAMP = 0
    /\ rlLog = <<>>
    /\ inflight = <<>>
    /\ logger = [maxLogsPerHour |-> 0, logCount |-> 0, hourStart |-> 0]
    /\ logWrites = <<>>
    /\ emailProviders = BuiltinProviders
    /\ loggedOut = {}
    /\ last = [op |-> "init"]

\* The /signup route passes 5 per hour
SignupRate == [limit |-> 5, windowMs |-> 60 * 60]

Init == Fresh /\ env \in Envs /\ rl = SignupRate

Tick ==
    /\ ticks < MaxTicks
    /\ \E d \in SessionSteps(env) : now' = now + d
    /\ ticks' = ticks + 1
    /\ last' = [op |-> "tick"]
    /\ UNCHANGED <<env, loggedOut, emailProviders, SESSIONS, issued, AUDIT,
                   USERS, mailVars, rateVars, inflight, logVars>>

\* createSession(env, email, options); crypto.randomUUID() gives an
\* identifier, one of ids, that no earlier call returned
CreateSessionWith(ids, inputs) ==
    \E id \in ids \ DOMAIN issued, in \in inputs, fault \in {"ok", "putError"} :
        LET data == NewSessionData(in.email, in.options, now, getConfig(env)) IN
        /\ SESSIONS' = IF fault = "ok"
                       THEN KVPut(SESSIONS, id, JSONstringify(data),
                                  getConfig(env).session.expirationTtl, now)
                       ELSE SESSIONS
        /\ issued' = IF fault = "ok"
                     THEN [k \in DOMAIN issued \cup {id} |->
                            IF k = id THEN [email |-> in.email, t |-> now]
                            ELSE issued[k]]
                     ELSE issued
        /\ last' = [op |-> "createSession", t |-> now, email |-> in.email,
                    threw |-> fault # "ok", id |-> id]
        /\ UNCHANGED <<now, ticks, env, loggedOut, emailProviders, AUDIT,
                       USERS, mailVars, rateVars, inflight, logVars>>

CreateSession == CreateSessionWith(SessionIds, CreateInputs)

\* getSession(request, env) for one of these requests
GetSessionWith(requests) ==
    \E request \in requests, fault \in SessionFaults :
        LET r == getSession(SESSIONS, request, now, getConfig(env), fault) IN
        /\ SESSIONS' = r.store
        /\ last' = [op |-> "getSession", t |-> now, request |-> request,
                    headers |-> request, before |-> SESSIONS,
                    threw |-> r.threw, found |-> r.found,
                    session |-> r.session, read |-> r.read, seen |-> r.seen,
                    id |-> r.id, wrote |-> r.wrote, skipped |-> r.skipped,
                    deleted |-> r.deleted]
        /\ UNCHANGED <<now, ticks, env, loggedOut, emailProviders, issued,
                       AUDIT, USERS, mailVars, rateVars, inflight, logVars>>

GetSession == GetSessionWith(Requests)

\* destroySession(env, sessionId) for one of these identifiers
DestroySessionWith(ids) ==
    \E id \in ids, fault \in {"ok", "deleteError"} :
        /\ SESSIONS' = destroySession(SESSIONS, id, fault).store
        /\ last' = [op |-> "destroySession", t |-> now, id |-> id,
                    before |-> SESSIONS, fault |-> fault,
                    again |-> last.op = "destroySession" /\ last.id = id
                              /\ ~last.threw,
                    threw |-> destroySession(SESSIONS, id, fault).threw]
        /\ UNCHANGED <<now, ticks, env, loggedOut, emailProviders, issued,
                       AUDIT, USERS, mailVars, rateVars, inflight, logVars>>

DestroySession == DestroySessionWith(SessionIds \cup {"unknown"})

Next == Tick \/ CreateSession \/ GetSession \/ DestroySession

Spec == Init /\ [][Next]_vars

RateInit ==
    Fresh /\ env = DefaultEnv /\ rl \in [limit : 1..MaxLimit, windowMs : Windows]

\* The clock of the rate limiter: within the window, and up to its end
RateTick ==
    /\ ticks < MaxTicks
    /\ \E d \in {1, rl.windowMs - 1} : now' = now + d
    /\ ticks' = ticks + 1
    /\ last' = [op |-> "tick"]
    /\ UNCHANGED <<env, loggedOut, emailProviders, SESSIONS, issued, AUDIT,
                   USERS, mailVars, rateVars, inflight, logVars>>

\* One whole checkRateLimit call (calls do not overlap)
RateCall(identifier, action, fault) ==
    LET key == RateLimitKey(action, identifier)
        r == checkRateLimit(AUDIT, identifier, action, rl.limit,
                            rl.windowMs, now, fault)
    IN  /\ AUDIT' = r.store
        /\ last' = [op |-> "checkRateLimit", t |-> now, key |-> key,
                    failed |-> r.failed, before |-> AUDIT, allowed |-> r.allowed,
                    remaining |-> r.remaining, hasReset |-> r.hasReset,
                    resetTime |-> r.resetTime, caught |-> r.caught,
                    wrote |-> r.wrote, threw |-> r.threw]
        /\ UNCHANGED <<now, ticks, env, loggedOut, emailProviders, SESSIONS,
                       issued, USERS, mailVars, rl, inflight, logVars>>

\* checkRateLimit with every store operation succeeding; the call is logged
CheckRateLimit ==
    \E identifier \in Identifiers, action \in RateActions :
        /\ Len(rlLog) < MaxCalls
        /\ RateCall(identifier, action, "ok")
        /\ rlLog' = Append(rlLog, [key |-> last'.key, t |-> now,
                                   allowed |-> last'.allowed,
                                   remaining |-> last'.remaining])

RateNext == RateTick \/ CheckRateLimit

RateSpec == RateInit /\ [][RateNext]_vars

\* checkRateLimit of one client with a store operation that may fail (the
\* calls are not logged)
CheckRateLimitFault ==
    \E action \in RateActions, fault \in RateFaults :
        /\ RateCall(<<"1.2.3.4">>, action, fault)
        /\ UNCHANGED rlLog

RateFaultNext == RateTick \/ CheckRateLimitFault

RateFaultSpec == RateInit /\ [][RateFaultNext]_vars

\* withRateLimit(env, request, action, limit, windowMs), any store operation
\* of its check failing or not
WithRateLimit ==
    \E headers \in RateRequests, fault \in {"ok", "getError", "putError"} :
        \E r \in {checkRateLimit(AUDIT, getClientIP(headers), <<"signup">>,
                                  rl.limit, rl.windowMs, now, fault)} :
            /\ AUDIT' = r.store
            /\ last' = [op |-> "withRateLimit", t |-> now,
                        key |-> RateLimitKey(<<"signup">>, getClientIP(headers)),
                        before |-> AUDIT, allowed |-> r.allowed,
                        resetTime |-> r.resetTime,
                        response |-> withRateLimit(r, rl.limit, now)]
            /\ UNCHANGED <<now, ticks, env, loggedOut, emailProviders,
                           SESSIONS, issued, USERS, mailVars, rateVars,
                           inflight, logVars>>

MiddlewareNext == RateTick \/ WithRateLimit

MiddlewareInit ==
    Fresh /\ env = DefaultEnv /\ rl \in [limit : 1..MaxLimit, windowMs : {3}]

MiddlewareSpec == MiddlewareInit /\ [][MiddlewareNext]_vars

\* Overlapping checkRateLimit calls of one client.  A call takes Date.now()
\* and awaits AUDIT.get (lines 117-122) ...
BeginCheck(p) ==
    /\ p \notin DOMAIN inflight
    /\ Len(rlLog) + Cardinality(DOMAIN inflight) < MaxRaceCalls
    /\ inflight' = [q \in DOMAIN inflight \cup {p} |->
                     IF q = p
                     THEN [t |-> now, snapshot |-> AUDIT,
                           overlapped |-> DOMAIN inflight # {}]
                     ELSE [inflight[q] EXCEPT !.overlapped = TRUE]]
    /\ last' = [op |-> "checkRateLimit:get", t |-> now, process |-> p]
    /\ UNCHANGED <<now, ticks, env, loggedOut, emailProviders, SESSIONS,
                   issued, AUDIT, USERS, mailVars, rateVars, logVars>>

\* ... and, when the get has resolved, prunes what it read, tests the limit,
\* awaits AUDIT.put and returns (lines 123-156)
FinishCheck(p) ==
    /\ p \in DOMAIN inflight
    /\ \E r \in {checkRateLimit(inflight[p].snapshot, <<"1.2.3.4">>, <<"signup">>,
                                 rl.limit, rl.windowMs, inflight[p].t, "ok")} :
        LET key == RateLimitKey(<<"signup">>, <<"1.2.3.4">>) IN
        /\ AUDIT' = IF r.wrote
                     THEN KVPut(AUDIT, key, r.store[key].value,
                                RateLimitTtl(rl.windowMs), now)
                     ELSE AUDIT
        /\ rlLog' = Append(rlLog, [key |-> key, t |-> inflight[p].t,
                                    allowed |-> r.allowed,
                                    remaining |-> r.remaining,
                                    overlapped |-> inflight[p].overlapped])
        /\ last' = [op |-> "checkRateLimit:put", t |-> now, process |-> p,
                     allowed |-> r.allowed]
    /\ inflight' = [q \in DOMAIN inflight \ {p} |-> inflight[q]]
    /\ UNCHANGED <<now, ticks, env, loggedOut, emailProviders, SESSIONS,
                   issued, USERS, mailVars, rl, logVars>>

BeginCheckRateLimit == \E p \in Processes : BeginCheck(p)
FinishCheckRateLimit == \E p \in Processes : FinishCheck(p)

RaceNext == RateTick \/ BeginCheckRateLimit \/ FinishCheckRateLimit

RaceInit == Fresh /\ env = DefaultEnv /\ rl \in [limit : {1, 2}, windowMs : {3}]

RaceSpec == RaceInit /\ [][RaceNext]_vars


----------------------------------------------------------------------------
(* The handlers of the worker *)

HandlerInit == Fresh /\ env \in {DefaultEnv, NoSecretEnv} /\ rl = SignupRate

\* The clock advances by a second
Second ==
    /\ ticks < MaxTicks
    /\ now' = now + 1
    /\ ticks' = ticks + 1
    /\ last' = [op |-> "tick"]
    /\ UNCHANGED <<env, loggedOut, emailProviders, SESSIONS, issued, AUDIT,
                   USERS, mailVars, rateVars, inflight, logVars>>

\* POST /signup
HandleSignup ==
    \E form \in SignupForms, rnd \in Rands, fault \in {"ok", "putQuota", "putError"} :
        \E r \in {handleSignupPost(form, "1.2.3.4", getConfig(env), USERS, AUDIT,
                                   DISPOSABLE_DOMAINS_CACHE, CACHE_TIMESTAMP,
                                   SESSIONS, now, rnd, fault)} :
            /\ Cardinality(DOMAIN r.audit) <= MaxAudit
            /\ USERS' = r.users
            /\ AUDIT' = r.audit
            /\ DISPOSABLE_DOMAINS_CACHE' = r.cache
            /\ CACHE_TIMESTAMP' = r.ts
            /\ SESSIONS' = r.sessions
            /\ last' = [op |-> "handleSignup", t |-> now, form |-> form,
                        fault |-> fault, auditBefore |-> AUDIT,
                        usersBefore |-> USERS, validated |-> r.validated,
                        verdict |-> r.verdict, response |-> r.response]
            /\ UNCHANGED <<now, ticks, env, loggedOut, emailProviders, issued,
                           rateVars, inflight, logVars>>

\* POST (or GET) /api/contact
HandleContact ==
    \E method \in {"POST", "GET"}, body \in ContactBodies,
       turnstile \in TurnstileOutcomes :
        \E r \in {handleContact(method, body, env, DISPOSABLE_DOMAINS_CACHE,
                                CACHE_TIMESTAMP, SESSIONS, now, turnstile)} :
            /\ DISPOSABLE_DOMAINS_CACHE' = r.cache
            /\ CACHE_TIMESTAMP' = r.ts
            /\ SESSIONS' = r.sessions
            /\ last' = [op |-> "handleContact", t |-> now, method |-> method,
                        body |-> body, turnstile |-> turnstile, threw |-> r.threw,
                        validated |-> r.validated, verdict |-> r.verdict,
                        response |-> r.response]
            /\ UNCHANGED <<now, ticks, env, loggedOut, emailProviders, issued,
                           AUDIT, USERS, rateVars, inflight, logVars>>

HandlerNext == Second \/ HandleSignup \/ HandleContact

HandlerSpec == HandlerInit /\ [][HandlerNext]_vars

----------------------------------------------------------------------------
(* The audit log *)

\* One call of logSecurityEvent, logUserAction or logSystemEvent, on an
\* environment with or without the AUDIT binding
LogEventWith(calls, bindings, faults) ==
    \E call \in calls, hasAudit \in bindings, rnd \in Rands, fault \in faults :
        \E r \in {logSecurityEventOutcome(AUDIT, hasAudit, call.event, call.details,
                                           getConfig(env), now, rnd, fault)} :
            /\ Cardinality(DOMAIN r.audit) <= MaxAudit
            /\ AUDIT' = r.audit
            /\ last' = [op |-> "logEvent", t |-> now, via |-> call.via,
                        key |-> AuditKey(now, rnd),
                        ttl |-> getConfig(env).logging.auditLogTtl,
                        hasAudit |-> hasAudit, fault |-> fault, before |-> AUDIT,
                        wrote |-> r.wrote, caught |-> r.caught, threw |-> r.threw]
            /\ UNCHANGED <<now, ticks, env, loggedOut, emailProviders,
                           SESSIONS, issued, USERS, mailVars, rateVars,
                           inflight, logVars>>

LogEvent == LogEventWith(LogCalls, BOOLEAN, {"ok", "putQuota", "putError"})

AuditNext == Second \/ LogEvent

AuditInit == Fresh /\ env = DefaultEnv /\ rl = SignupRate

AuditSpec == AuditInit /\ [][AuditNext]_vars

----------------------------------------------------------------------------
(* The writers of audit events *)

\* The clock of the audit writers
EventTick ==
    /\ ticks < MaxEventTicks
    /\ now' = now + 1
    /\ ticks' = ticks + 1
    /\ last' = [op |-> "tick"]
    /\ UNCHANGED <<env, loggedOut, emailProviders, SESSIONS, issued, AUDIT,
                   USERS, mailVars, rateVars, inflight, logVars>>

\* logger.log(type, data) and logger.log(type, data, ttl) on a logger made
\* for the request
LogThrottled ==
    \E type \in {"security"}, ttl \in {0, OneHour}, suffix \in Rands,
       fault \in {"ok"} :
        \E r \in {ThrottledLog(NewLogger(env, 0, now), AUDIT, type,
                                [ip |-> "1.2.3.4"], ttl, getConfig(env), now,
                                suffix, fault)} :
            /\ Cardinality(DOMAIN r.audit) <= MaxAudit
            /\ AUDIT' = r.audit
            /\ last' = [op |-> "logThrottled", t |-> now,
                        key |-> ThrottledKey(type, now, suffix),
                        ttl |-> OrDefault(ttl, getConfig(env).logging.auditLogTtl),
                        fault |-> fault, before |-> AUDIT,
                        wrote |-> r.wrote, threw |-> r.threw]
            /\ UNCHANGED <<now, ticks, env, loggedOut, emailProviders,
                           SESSIONS, issued, USERS, mailVars, rateVars,
                           inflight, logVars>>

\* logEmailValidation(env, email, result, ip, action)
LogEmailValidation ==
    \E email \in {"user@mailinator.com"},
       result \in {Valid, Invalid("Disposable email address not allowed")},
       hasAudit \in {TRUE}, suffix \in Rands, fault \in {"ok", "putError"} :
        \E a \in {logEmailValidation(AUDIT, hasAudit, email, result, "1.2.3.4",
                                      "signup", now, suffix, fault)} :
            /\ Cardinality(DOMAIN a) <= MaxAudit
            /\ AUDIT' = a
            /\ last' = [op |-> "logEmailValidation", t |-> now,
                        key |-> EmailValidationKey(now, suffix),
                        ttl |-> ThirtyDays, fault |-> fault, before |-> AUDIT,
                        wrote |-> hasAudit /\ ~result.isValid /\ fault = "ok",
                        threw |-> FALSE]
            /\ UNCHANGED <<now, ticks, env, loggedOut, emailProviders,
                           SESSIONS, issued, USERS, mailVars, rateVars,
                           inflight, logVars>>

\* logSecurityEvent and logUserAction with the AUDIT namespace bound
LogSecurityEvent ==
    LogEventWith({c \in LogCalls : c.via # "logSystemEvent"}, {TRUE},
                 {"ok", "putQuota"})

EventNext == EventTick \/ LogSecurityEvent \/ LogThrottled \/ LogEmailValidation

EventSpec == AuditInit /\ [][EventNext]_vars

----------------------------------------------------------------------------
(* The throttled logger *)

LoggerInit == Fresh /\ env = LoggerEnv /\ rl = SignupRate

\* The clock of the logger: within the hour, and up to its end
LoggerTick ==
    /\ ticks < MaxTicks
    /\ \E d \in {1, OneHour - 1} : now' = now + d
    /\ ticks' = ticks + 1
    /\ last' = [op |-> "tick"]
    /\ UNCHANGED <<env, loggedOut, emailProviders, SESSIONS, issued, AUDIT,
                   USERS, mailVars, rateVars, inflight, logVars>>

\* new ThrottledLogger(env) and new ThrottledLogger(env, 1)
ConstructLogger ==
    \E maxLogsPerHour \in {0, 1} :
        /\ logger.maxLogsPerHour = 0
        /\ logger' = NewLogger(env, maxLogsPerHour, now)
        /\ last' = [op |-> "new ThrottledLogger", t |-> now]
        /\ UNCHANGED <<now, ticks, env, loggedOut, emailProviders, SESSIONS,
                       issued, AUDIT, USERS, mailVars, rateVars, inflight,
                       logWrites>>

\* One whole logger.log call (calls do not overlap); the random part of the
\* key is one no earlier write used
Log ==
    \E fault \in {"ok", "putQuota", "putError"} :
        \E r \in {ThrottledLog(logger, AUDIT, "security", [ip |-> "1.2.3.4"], 0,
                                getConfig(env), now, ToString(Len(logWrites)),
                                fault)} :
            /\ logger.maxLogsPerHour > 0
            /\ Len(logWrites) < MaxLogWrites
            /\ logger' = r.logger
            /\ AUDIT' = r.audit
            /\ logWrites' = IF r.wrote THEN Append(logWrites, now) ELSE logWrites
            /\ last' = [op |-> "log", t |-> now, fault |-> fault,
                        loggerBefore |-> logger, before |-> AUDIT,
                        success |-> r.success, wrote |-> r.wrote,
                        dropped |-> r.dropped, threw |-> r.threw]
            /\ UNCHANGED <<now, ticks, env, loggedOut, emailProviders,
                           SESSIONS, issued, USERS, mailVars, rateVars,
                           inflight>>

LoggerNext == LoggerTick \/ ConstructLogger \/ Log

LoggerSpec == LoggerInit /\ [][LoggerNext]_vars

----------------------------------------------------------------------------
(* The email validator, called with the environment *)

\* validateEmailLegitimacy(email, env)
ValidateEmail ==
    \E email \in {"jane.doe@a.co", "bob@trashmail.io"},
       envKind \in {"full", "noSessions"},
       getF \in {"ok", "error"}, remote \in Remotes, putF \in {"ok", "error"} :
        \E r \in {validateEmailLegitimacy(email, envKind, DISPOSABLE_DOMAINS_CACHE,
                                          CACHE_TIMESTAMP, SESSIONS, now,
                                          getF, remote, putF)} :
            /\ DISPOSABLE_DOMAINS_CACHE' = r.cache
            /\ CACHE_TIMESTAMP' = r.ts
            /\ SESSIONS' = r.store
            /\ last' = [op |-> "validateEmail", t |-> now, email |-> email,
                        verdict |-> r.verdict, source |-> r.source]
            /\ UNCHANGED <<now, ticks, env, loggedOut, emailProviders, issued,
                           AUDIT, USERS, rateVars, inflight, logVars>>

\* Sessions and the validator share the SESSIONS namespace
CookieNext == Second \/ CreateSession \/ GetSession \/ ValidateEmail

CookieSpec == Init /\ [][CookieNext]_vars

----------------------------------------------------------------------------
(* The blocklist of the email validator *)

\* The addresses the validator is asked about
MailEmails == {"jane.doe@a.co", "user@mailinator.com", "ab1234567@x.com",
               "invalid-email", "test@example.com", "bob@trashmail.io"}

\* The env argument and what the SESSIONS namespace does with get and put;
\* without the binding the store is not called
MailCalls ==
    {[envKind |-> k, getF |-> "ok", putF |-> "ok"] : k \in {"undefined", "noSessions"}}
    \cup {[envKind |-> "full", getF |-> g, putF |-> q] :
            g \in {"ok", "error"}, q \in {"ok", "error"}}

MailInit == Fresh /\ env = DefaultEnv /\ rl = SignupRate

\* The clock advances by a second or to the edge of the freshness window
MailTick ==
    /\ ticks < MaxTicks
    /\ \E d \in {1, CACHE_DURATION - 1} : now' = now + d
    /\ ticks' = ticks + 1
    /\ last' = [op |-> "tick"]
    /\ UNCHANGED <<env, loggedOut, emailProviders, SESSIONS, issued, AUDIT,
                   USERS, mailVars, rateVars, inflight, logVars>>

\* A new worker instance starts: the module's variables are initialised
\* again, the namespaces stay
NewIsolate ==
    /\ ~DISPOSABLE_DOMAINS_CACHE.isNull
    /\ DISPOSABLE_DOMAINS_CACHE' = NullCache
    /\ CACHE_TIMESTAMP' = 0
    /\ last' = [op |-> "newIsolate"]
    /\ UNCHANGED <<now, ticks, env, loggedOut, emailProviders, SESSIONS,
                   issued, AUDIT, USERS, rateVars, inflight, logVars>>

\* validateEmailLegitimacy(email, env) with every outcome of the store and
\* of the remote fetch; a fetch that takes time moves the clock
CheckEmailWith(emails, calls, remotes) ==
    \E email \in emails, c \in calls, remote \in remotes :
        \E envKind \in {c.envKind}, getF \in {c.getF},
           r \in {validateEmailLegitimacy(email, c.envKind, DISPOSABLE_DOMAINS_CACHE,
                                          CACHE_TIMESTAMP, SESSIONS, now,
                                          c.getF, remote, c.putF)} :
            \E took \in {IF r.source = "remote" THEN remote.took ELSE 0} :
                /\ took > 0 => ticks < MaxTicks
                /\ DISPOSABLE_DOMAINS_CACHE' = r.cache
                /\ CACHE_TIMESTAMP' = r.ts
                /\ SESSIONS' = r.store
                /\ now' = now + took
                /\ ticks' = IF took > 0 THEN ticks + 1 ELSE ticks
                /\ last' = [op |-> "checkEmail", t |-> now, email |-> email,
                            envKind |-> envKind, getF |-> getF, putF |-> c.putF,
                            failed |-> remote.kind = "throw" \/ ~remote.ok,
                            lines |-> IF r.source = "remote" THEN remote.lines
                                      ELSE <<>>,
                            verdict |-> r.verdict, source |-> r.source,
                            list |-> r.list, threw |-> r.threw,
                            cacheBefore |-> DISPOSABLE_DOMAINS_CACHE,
                            tsBefore |-> CACHE_TIMESTAMP,
                            storeBefore |-> SESSIONS,
                            cacheAfter |-> r.cache, tsAfter |-> r.ts]
                /\ UNCHANGED <<env, loggedOut, emailProviders, issued, AUDIT,
                               USERS, rateVars, inflight, logVars>>

CheckEmail == CheckEmailWith(MailEmails, MailCalls, MailRemotes)

MailNext == MailTick \/ NewIsolate \/ CheckEmail

MailSpec == MailInit /\ [][MailNext]_vars

\* The validator with every answer of the remote list, one without a
\* domain line included, a store that works and no store
CheckBlocklist ==
    CheckEmailWith({"jane.doe@a.co", "user@mailinator.com", "bob@trashmail.io"},
                   {c \in MailCalls : c.getF = "ok" /\ c.putF = "ok"
                                      /\ c.envKind # "noSessions"},
                   Remotes)

BlocklistNext == MailTick \/ NewIsolate \/ CheckBlocklist

BlocklistSpec == MailInit /\ [][BlocklistNext]_vars

----------------------------------------------------------------------------
(* Accounts *)

\* The addresses and passwords the account functions are called with
UserEmails == {"jane.doe@a.co", "Jane.Doe@A.co", "invalid-email"}
Passwords == {"pw1", "pw2"}

UserInit == Fresh /\ env = DefaultEnv /\ rl = SignupRate

\* The calls that drew a UUID so far are issued; the next call draws the next
DrawsId(email, fault) ==
    /\ isValidEmail(email).isValid
    /\ fault # "get"
    /\ getFromKV(USERS, UserKey(Chars[email])) = NoValue

RegisterUser ==
    \E email \in UserEmails, password \in Passwords,
       fault \in {"ok", "get", "put1", "put2"} :
        \E id \in {UserId(Len(issued) + 1)},
           r \in {registerUser(USERS, AUDIT, email, password,
                               UserId(Len(issued) + 1), now, "r1", fault)} :
            /\ DrawsId(email, fault) => Len(issued) < MaxUsers
            /\ USERS' = r.users
            /\ AUDIT' = r.audit
            /\ issued' = IF DrawsId(email, fault)
                         THEN Append(issued, [id |-> id, email |-> email,
                                              password |-> password,
                                              success |-> r.result.success,
                                              deleted |-> FALSE])
                         ELSE issued
            /\ last' = [op |-> "registerUser", email |-> email,
                        password |-> password, fault |-> fault,
                        result |-> r.result]
            /\ UNCHANGED <<now, ticks, env, loggedOut, emailProviders, SESSIONS,
                           mailVars, rateVars, inflight, logVars>>

LoginUser ==
    \E email \in UserEmails, password \in Passwords, fault \in {"ok", "get"} :
        \E r \in {loginUser(USERS, AUDIT, email, password, now, "r1", fault)} :
            /\ AUDIT' = r.audit
            /\ last' = [op |-> "loginUser", email |-> email,
                        password |-> password, fault |-> fault,
                        result |-> r.result]
            /\ UNCHANGED <<now, ticks, env, loggedOut, emailProviders, SESSIONS,
                           issued, USERS, mailVars, rateVars, inflight, logVars>>

GetUserById ==
    \E n \in 1..MaxUsers, fault \in {"ok", "get"} :
        /\ last' = [op |-> "getUserById", userId |-> UserId(n), fault |-> fault,
                    result |-> getUserById(USERS, UserId(n), fault)]
        /\ UNCHANGED <<now, ticks, env, loggedOut, emailProviders, SESSIONS,
                       issued, AUDIT, USERS, mailVars, rateVars, inflight,
                       logVars>>

DeleteUser ==
    \E n \in 1..MaxUsers, fault \in {"ok", "get", "delete1", "delete2"} :
        \E r \in {deleteUser(USERS, AUDIT, UserId(n), now, "r1", fault)} :
            /\ USERS' = r.users
            /\ AUDIT' = r.audit
            /\ issued' = [i \in 1..Len(issued) |->
                            IF issued[i].id = UserId(n) /\ r.result.success
                            THEN [issued[i] EXCEPT !.deleted = TRUE]
                            ELSE issued[i]]
            /\ last' = [op |-> "deleteUser", userId |-> UserId(n),
                        fault |-> fault, result |-> r.result]
            /\ UNCHANGED <<now, ticks, env, loggedOut, emailProviders, SESSIONS,
                           mailVars, rateVars, inflight, logVars>>

UserNext == RegisterUser \/ LoginUser \/ GetUserById \/ DeleteUser

UserSpec == UserInit /\ [][UserNext]_vars

----------------------------------------------------------------------------
(* The session cookie *)

MaxAges == {0, 1, 3600, DefaultCookieMaxAge}

\* No options, maxAge alone (as /logout and a login pass it), every option
CookieOptions ==
    {<<>>}
    \cup {[maxAge |-> m] : m \in MaxAges}
    \cup {[httpOnly |-> h, secure |-> sc, sameSite |-> ss, maxAge |-> m,
           domain |-> d, path |-> pa] :
            h \in BOOLEAN, sc \in BOOLEAN, ss \in {"Strict", "Lax", ""},
            m \in MaxAges, d \in {"", "app.example"}, pa \in {"/", ""}}

SetCookieInit == Fresh /\ env = DefaultEnv /\ rl = SignupRate

\* createSessionCookie(sessionId, options)
CreateSessionCookie ==
    \E sessionId \in SessionIds \cup {""}, options \in CookieOptions :
        /\ last' = [op |-> "createSessionCookie", sessionId |-> sessionId,
                    options |-> options,
                    cookie |-> createSessionCookie(sessionId, options)]
        /\ UNCHANGED <<now, ticks, env, loggedOut, emailProviders, SESSIONS,
                       issued, AUDIT, USERS, mailVars, rateVars, inflight,
                       logVars>>

SetCookieNext == CreateSessionCookie

SetCookieSpec == SetCookieInit /\ [][SetCookieNext]_vars

----------------------------------------------------------------------------
(* Sending email *)

ProviderNames == {"brevo", "mycustom", "toString"}
Implementations == {"returnsTrue", "returnsFalse", "throws"}
\* EMAIL_PROVIDER: unset, the built-in names, a custom name, an unknown name
\* and names of Object.prototype
ProviderEntries ==
    {"", "brevo", "ses", "smtp2go", "mycustom", "nosuch", "toString",
     "constructor", "__proto__"}
NetOutcomes == {"ok", "notOk", "throw"}

SendInit == Fresh /\ env = DefaultEnv /\ rl = SignupRate

AddEmailProvider ==
    \E name \in ProviderNames, implementation \in Implementations :
        /\ emailProviders' = addEmailProvider(emailProviders, name, implementation)
        /\ last' = [op |-> "addEmailProvider", name |-> name]
        /\ UNCHANGED <<now, ticks, env, loggedOut, SESSIONS, issued, AUDIT,
                       USERS, mailVars, rateVars, inflight, logVars>>

SendEmail ==
    \E hasEnv \in BOOLEAN, EMAIL_PROVIDER \in ProviderEntries, net \in NetOutcomes :
        /\ last' = [op |-> "sendEmail", hasEnv |-> hasEnv, net |-> net,
                    registered |-> DOMAIN emailProviders]
                   @@ sendEmail(emailProviders, hasEnv, EMAIL_PROVIDER, net)
        /\ UNCHANGED <<now, ticks, env, loggedOut, emailProviders, SESSIONS,
                       issued, AUDIT, USERS, mailVars, rateVars, inflight,
                       logVars>>

SendEmailBrevo ==
    \E hasEnv \in BOOLEAN, net \in NetOutcomes :
        /\ last' = [op |-> "sendEmailBrevo", hasEnv |-> hasEnv, net |-> net]
                   @@ sendEmailBrevo(hasEnv, net)
        /\ UNCHANGED <<now, ticks, env, loggedOut, emailProviders, SESSIONS,
                       issued, AUDIT, USERS, mailVars, rateVars, inflight,
                       logVars>>

SendNext == AddEmailProvider \/ SendEmail \/ SendEmailBrevo

SendSpec == SendInit /\ [][SendNext]_vars

----------------------------------------------------------------------------
(* The fetch handler.  The requests arrive within one second: what the
   handler does as time passes is the sessions', the rate limiter's and the
   validator's part, which have their own specifications. *)

WorkerSessionIds == {"s1", "s2"}

\* The headers of a request: no cookie, or the cookie of a session
WorkerHeaders ==
    {[CFConnectingIP |-> "1.2.3.4"]}
    \cup {[CFConnectingIP |-> "1.2.3.4", Cookie |-> << <<"session", id>> >>] :
            id \in WorkerSessionIds}

\* What a request carries besides its URL, and what the store and the
\* runtime do while it is handled, when nothing fails
BaseIn ==
    [sF |-> "ok", dF |-> "ok", rlF |-> "ok", auditF |-> "ok", formF |-> "ok",
     platform |-> "ok", msg |-> "Network connection lost.", rnd |-> "r1",
     form |-> [email |-> "jane.doe@a.co", password |-> "pw", website |-> <<>>],
     body |-> [json |-> TRUE, name |-> "Ann", email |-> "jane.doe@a.co",
               message |-> "hi", turnstileToken |-> "tok"],
     turnstile |-> "success"]

Get(pathname) ==
    [protocol |-> "https", forwardedProto |-> FALSE, pathname |-> pathname,
     method |-> "GET"]
Post(pathname) == [Get(pathname) EXCEPT !.method = "POST"]

\* The requests: every route, each with the failures that can reach it
WorkerCalls ==
    {[request |-> Get(p), in |-> BaseIn] :
        p \in {"/", "/signup", "/login", "/logout", "/dashboard", "/api/contact",
               "/nope"}}
    \cup {[request |-> [Get("/login") EXCEPT !.protocol = "http",
                                             !.forwardedProto = f],
           in |-> BaseIn] : f \in BOOLEAN}
    \cup {[request |-> Get("/"), in |-> [BaseIn EXCEPT !.sF = "getError", !.msg = m]] :
            m \in StoreMessages}
    \cup {[request |-> Post("/signup"),
           in |-> [BaseIn EXCEPT !.form.website = w, !.platform = pf]] :
            w \in {<<>>, <<"x">>}, pf \in {"ok", "relativeUrl"}}
    \cup {[request |-> Post("/signup"), in |-> [BaseIn EXCEPT !.formF = "throw"]]}
    \cup {[request |-> Get("/logout"), in |-> [BaseIn EXCEPT !.platform = pf]] :
            pf \in {"relativeUrl", "immutableHeaders"}}
    \cup {[request |-> Get("/logout"), in |-> [BaseIn EXCEPT !.dF = "deleteError"]]}
    \cup {[request |-> Get("/dashboard"),
           in |-> [BaseIn EXCEPT !.platform = "relativeUrl"]]}
    \cup {[request |-> Post("/api/contact"), in |-> BaseIn]}

WorkerInit == Fresh /\ env = DefaultEnv /\ rl = SignupRate

\* A login elsewhere creates a session
Login ==
    CreateSessionWith(WorkerSessionIds,
                      {[email |-> "alice@corp.io",
                        options |-> [maxAge |-> 0, userAgent |-> "", ip |-> ""]]})

\* fetch(request, env)
Fetch ==
    \E c \in WorkerCalls, headers \in WorkerHeaders :
        \E r \in {fetch(c.request @@ [headers |-> headers], env,
                        [sessions |-> SESSIONS, audit |-> AUDIT, users |-> USERS,
                         cache |-> DISPOSABLE_DOMAINS_CACHE,
                         ts |-> CACHE_TIMESTAMP],
                        now, c.in)} :
            /\ Cardinality(DOMAIN r.st.audit) <= MaxAudit
            /\ SESSIONS' = r.st.sessions
            /\ AUDIT' = r.st.audit
            /\ USERS' = r.st.users
            /\ DISPOSABLE_DOMAINS_CACHE' = r.st.cache
            /\ CACHE_TIMESTAMP' = r.st.ts
            /\ loggedOut' = IF r.destroyed = "" THEN loggedOut
                            ELSE loggedOut \cup {r.destroyed}
            /\ last' = [op |-> "fetch", t |-> now, request |-> c.request,
                        headers |-> headers, in |-> c.in, reply |-> r.reply,
                        caught |-> r.caught, message |-> r.message,
                        before |-> SESSIONS, destroyed |-> r.destroyed]
            /\ UNCHANGED <<now, ticks, env, emailProviders, issued, rateVars,
                           inflight, logVars>>

\* getSession and destroySession as other code of the application calls them
SessionRead ==
    GetSessionWith({h \in WorkerHeaders : "Cookie" \in DOMAIN h})
SessionDestroy == DestroySessionWith(WorkerSessionIds)

WorkerNext == Login \/ Fetch \/ SessionRead \/ SessionDestroy

WorkerSpec == WorkerInit /\ [][WorkerNext]_vars

----------------------------------------------------------------------------
(* log calls of one ThrottledLogger that overlap *)

\* logger.log of process p up to its await (kv-utils.js lines 52-68): the
\* reset test and the cap test, which returns false at once, or else the
\* write is on its way
BeginLog(p) ==
    /\ p \notin DOMAIN inflight
    /\ logger.maxLogsPerHour > 0
    /\ Len(logWrites) + Cardinality(DOMAIN inflight) < MaxRaceCalls
    /\ logger' = ResetIfElapsed(logger, now)
    /\ inflight' = IF CapReached(ResetIfElapsed(logger, now)) THEN inflight
                   ELSE [q \in DOMAIN inflight \cup {p} |->
                            IF q = p
                            THEN [t |-> now, overlapped |-> DOMAIN inflight # {}]
                            ELSE [inflight[q] EXCEPT !.overlapped = TRUE]]
    /\ last' = [op |-> "log:begin", t |-> now, process |-> p,
                dropped |-> CapReached(ResetIfElapsed(logger, now))]
    /\ UNCHANGED <<now, ticks, env, loggedOut, emailProviders, SESSIONS,
                   issued, AUDIT, USERS, mailVars, rateVars, logWrites>>

\* ... and from the await on (lines 68-81): safeKVWrite's put has resolved
\* or failed, and logCount is incremented on success
FinishLog(p) ==
    \E fault \in {"ok", "putQuota", "putError"} :
        /\ p \in DOMAIN inflight
        /\ AUDIT' = IF safeKVWrite(fault) = "ok"
                     THEN KVPut(AUDIT,
                                ThrottledKey("security", inflight[p].t,
                                             ToString(Len(logWrites))),
                                JSONstringify([timestamp |-> now,
                                               type |-> "security",
                                               data |-> [ip |-> "1.2.3.4"]]),
                                getConfig(env).logging.auditLogTtl, now)
                     ELSE AUDIT
        /\ logger' = IF safeKVWrite(fault) = "ok"
                      THEN [logger EXCEPT !.logCount = logger.logCount + 1]
                      ELSE logger
        /\ logWrites' = IF safeKVWrite(fault) = "ok"
                         THEN Append(logWrites, now) ELSE logWrites
        /\ last' = [op |-> "log:return", t |-> now, process |-> p,
                    fault |-> fault, overlapped |-> inflight[p].overlapped,
                    success |-> safeKVWrite(fault) = "ok",
                    threw |-> safeKVWrite(fault) = "throw"]
        /\ inflight' = [q \in DOMAIN inflight \ {p} |-> inflight[q]]
        /\ UNCHANGED <<now, ticks, env, loggedOut, emailProviders, SESSIONS,
                       issued, USERS, mailVars, rateVars>>

BeginLogs == \E p \in Processes : BeginLog(p)
FinishLogs == \E p \in Processes : FinishLog(p)

LoggerRaceNext == LoggerTick \/ ConstructLogger \/ BeginLogs \/ FinishLogs

LoggerRaceSpec == LoggerInit /\ [][LoggerRaceNext]_vars

----------------------------------------------------------------------------
(* getSession and destroySession of requests served at once *)

SessionRaceInit == Fresh /\ env = DefaultEnv /\ rl = SignupRate

\* The clock, in steps around the debounce interval
SessionRaceTick ==
    /\ ticks < MaxTicks
    /\ \E d \in {1, fiveMinutes} : now' = now + d
    /\ ticks' = ticks + 1
    /\ last' = [op |-> "tick"]
    /\ UNCHANGED <<env, loggedOut, emailProviders, SESSIONS, issued, AUDIT,
                   USERS, mailVars, rateVars, inflight, logVars>>

\* The request of a browser that holds the cookie of session id
WithCookie(id) == [Host |-> "app", Cookie |-> << <<"session", id>> >>]

\* A login creates the session
RaceLogin ==
    CreateSessionWith(SessionIds,
                      {[email |-> "alice@corp.io",
                        options |-> [maxAge |-> 0, userAgent |-> "", ip |-> ""]]})

\* getSession of process p up to the point where SESSIONS.get has resolved
\* (lines 8-17): it holds what the store had then
BeginGetSession(p) ==
    \E id \in SessionIds :
        /\ p \notin DOMAIN inflight
        /\ inflight' = [q \in DOMAIN inflight \cup {p} |->
                         IF q = p
                         THEN [t |-> now, snapshot |-> SESSIONS, id |-> id,
                               afterLogout |-> id \in loggedOut]
                         ELSE inflight[q]]
        /\ last' = [op |-> "getSession:get", t |-> now, process |-> p, id |-> id]
        /\ UNCHANGED <<now, ticks, env, loggedOut, emailProviders, SESSIONS,
                       issued, AUDIT, USERS, mailVars, rateVars, logVars>>

\* ... and from there on (lines 18-56): the checks on the record it read,
\* with the time of the read, and its delete or its refresh put, which
\* reaches the store now
FinishGetSession(p) ==
    /\ p \in DOMAIN inflight
    /\ \E r \in {getSession(inflight[p].snapshot, WithCookie(inflight[p].id),
                             inflight[p].t, getConfig(env), "ok")} :
        /\ SESSIONS' = IF r.wrote
                        THEN KVPut(SESSIONS, r.id, r.store[r.id].value,
                                   getConfig(env).session.expirationTtl, now)
                        ELSE IF r.deleted THEN KVDelete(SESSIONS, r.id)
                        ELSE SESSIONS
        /\ last' = [op |-> "getSession:return", t |-> now, process |-> p,
                    id |-> inflight[p].id, readAt |-> inflight[p].t,
                    afterLogout |-> inflight[p].afterLogout,
                    found |-> r.found, wrote |-> r.wrote,
                    before |-> SESSIONS]
    /\ inflight' = [q \in DOMAIN inflight \ {p} |-> inflight[q]]
    /\ UNCHANGED <<now, ticks, env, loggedOut, emailProviders, issued, AUDIT,
                   USERS, mailVars, rateVars, logVars>>

BeginGetSessions == \E p \in Processes : BeginGetSession(p)
FinishGetSessions == \E p \in Processes : FinishGetSession(p)

\* The /logout route's destroySession(env, session.id), to its return
Logout ==
    \E id \in DOMAIN SESSIONS, fault \in {"ok", "deleteError"} :
        \E d \in {destroySession(SESSIONS, id, fault)} :
            /\ SESSIONS' = d.store
            /\ loggedOut' = IF d.threw THEN loggedOut ELSE loggedOut \cup {id}
            /\ last' = [op |-> "destroySession", t |-> now, id |-> id,
                        before |-> SESSIONS, fault |-> fault, again |-> FALSE,
                        threw |-> d.threw]
            /\ UNCHANGED <<now, ticks, env, emailProviders, issued, AUDIT,
                           USERS, mailVars, rateVars, inflight, logVars>>

SessionRaceNext ==
    SessionRaceTick \/ RaceLogin \/ BeginGetSessions \/ FinishGetSessions
    \/ Logout

SessionRaceSpec == SessionRaceInit /\ [][SessionRaceNext]_vars

----------------------------------------------------------------------------
(* Session manager: properties *)

\* The last call was a getSession that read a stored record and did not raise
GotRecord == last.op = "getSession" /\ last.read /\ ~last.threw

\* The record getSession read is past its absolute expiry or idle timeout,
\* boundary instants included / excluded
SeenInvalidAtOrPast ==
    \/ last.t >= last.seen.expiresAt
    \/ last.t - last.seen.lastActivity >= getConfig(env).session.timeout

SeenInvalidPast ==
    \/ last.t > last.seen.expiresAt
    \/ last.t - last.seen.lastActivity > getConfig(env).session.timeout

\* C1 as stated: getSession returns absent whenever now >= expiresAt or
\* now - lastActivity >= idleTimeout, the boundary instants included, also
\* while the record still exists in the store.
C1_AbsentAtOrPastBoundary ==
    (GotRecord /\ SeenInvalidAtOrPast) => ~last.found

\* C1 amended: getSession returns absent exactly when now > expiresAt or
\* now - lastActivity > idleTimeout; at the boundary instants
\* now = expiresAt and now - lastActivity = idleTimeout the session is
\* still returned.
C1_AbsentIffPastBoundary ==
    GotRecord => (last.found <=> ~SeenInvalidPast)

\* A record that was still in the store was refused as expired
C1_Witness ==
    GotRecord /\ SeenInvalidPast /\ ~last.found /\ last.t > last.seen.expiresAt

\* C5: createSession(subject) followed at the same instant by getSession
\* with the returned identifier returns a record with email = subject and
\* lastActivity = the creation time, and that getSession writes nothing.
C5_RoundTrip ==
    (/\ last.op = "getSession"
     /\ last.id \in DOMAIN issued
     /\ last.read
     /\ last.t = issued[last.id].t)
    => /\ ~last.threw
       /\ last.found
       /\ last.session.email = issued[last.id].email
       /\ last.session.lastActivity = issued[last.id].t
       /\ last.session.id = last.id
       /\ ~last.wrote /\ ~last.skipped
       /\ SESSIONS = last.before

C5_Witness ==
    /\ last.op = "getSession"
    /\ last.id \in DOMAIN issued
    /\ last.t = issued[last.id].t
    /\ last.found
    /\ last.session.email = "Bob@Corp.io"

\* C6: when getSession finds a stored record that fails the absolute-expiry
\* or the idle-timeout check, the record is gone from SESSIONS by the time
\* getSession returns absent.
C6_InvalidImpliesDeleted ==
    (GotRecord /\ ~last.found)
    => /\ last.id \in DOMAIN last.before
       /\ last.id \notin DOMAIN SESSIONS
       /\ \A k \in DOMAIN last.before \ {last.id} :
            k \in DOMAIN SESSIONS /\ SESSIONS[k] = last.before[k]

C6_Witness ==
    /\ GotRecord /\ ~last.found
    /\ last.t <= last.seen.expiresAt
    /\ last.id \notin DOMAIN SESSIONS

\* C7: when the refresh write of a valid session whose debounce interval
\* has elapsed is rejected with the quota error, getSession does not raise,
\* returns the session, and the stored record is unchanged.
C7_QuotaSwallowed ==
    (last.op = "getSession" /\ last.skipped)
    => /\ ~last.threw
       /\ last.found
       /\ last.session.email = last.seen.email
       /\ last.session.id = last.id
       /\ SESSIONS = last.before
       /\ JSONparse(SESSIONS[last.id].value) = last.seen

C7_Witness ==
    /\ last.op = "getSession" /\ last.skipped /\ last.found
    /\ last.t - last.seen.lastActivity > fiveMinutes

----------------------------------------------------------------------------
(* Rate limiter: properties *)

\* The logged calls for one key, in order
KeyCalls(key) == LET mine(c) == c.key = key IN SelectSeq(rlLog, mine)

\* C2: on a fresh key, with calls that do not overlap and no store error,
\* the k-th call within one window (1 <= k <= limit) is allowed with
\* remaining = limit - k, and the (limit+1)-th call within the same window
\* is rejected with remaining = 0.
C2_WindowCount ==
    \A key \in RateKeys :
        LET c == KeyCalls(key) IN
        \A k \in 1..Len(c) :
            (c[k].t - c[1].t < rl.windowMs)
            => /\ (k <= rl.limit => c[k].allowed /\ c[k].remaining = rl.limit - k)
               /\ (k = rl.limit + 1 => ~c[k].allowed /\ c[k].remaining = 0)

C2_Witness ==
    \E key \in RateKeys :
        LET c == KeyCalls(key) IN
        /\ rl.limit = MaxLimit
        /\ Len(c) = rl.limit + 1
        /\ c[Len(c)].t - c[1].t < rl.windowMs
        /\ c[Len(c)].t > c[1].t
        /\ ~c[Len(c)].allowed

\* C10: with calls for one key that do not overlap and no store failure,
\* every window of length windowMs, (t - windowMs, t], holds at most limit
\* calls that returned allowed=true.
C10_SlidingWindowBound ==
    \A key \in RateKeys :
        LET c == KeyCalls(key) IN
        \A j \in 1..Len(c) :
            Cardinality({i \in 1..j :
                            c[i].allowed /\ c[i].t > c[j].t - rl.windowMs})
                <= rl.limit

\* A key whose window slid: two allowed calls, a rejected one, and after the
\* first has left the window an allowed one again
C10_Witness ==
    \E key \in RateKeys :
        LET c == KeyCalls(key) IN
        /\ rl.limit = 2 /\ Len(c) = 4
        /\ c[1].allowed /\ c[2].allowed /\ ~c[3].allowed /\ c[4].allowed
        /\ c[4].t - c[2].t < rl.windowMs

\* C9: when a store operation inside checkRateLimit raises (the read, the
\* parse of the stored value, or the write with either kind of error),
\* checkRateLimit does not raise and returns allowed=true.
C9_FailOpen ==
    (last.op = "checkRateLimit" /\ last.failed # "none")
    => last.allowed /\ ~last.threw

\* The read failed on a key whose counter was already at the limit
C9_Witness ==
    /\ last.op = "checkRateLimit" /\ last.failed = "getError" /\ last.allowed
    /\ last.key \in DOMAIN AUDIT
    /\ Len(InWindow(JSONparse(AUDIT[last.key].value).requests,
                    last.t - rl.windowMs)) >= rl.limit

\* The logged calls that were allowed and whose time lies in the window
\* (t - windowMs, t]
AllowedInWindow(c, t) ==
    {i \in 1..Len(c) : c[i].allowed /\ c[i].t > t - rl.windowMs /\ c[i].t <= t}

\* C11: the read-modify-write of checkRateLimit is not atomic: when calls
\* for one key overlap (each reads the counter before the other writes it)
\* more than limit calls can return allowed=true within one window; every
\* window that holds more than limit allowed calls holds a call that
\* overlapped another.
C11_OverAdmissionNeedsOverlap ==
    \A j \in 1..Len(rlLog) :
        Cardinality(AllowedInWindow(rlLog, rlLog[j].t)) > rl.limit
        => \E i \in AllowedInWindow(rlLog, rlLog[j].t) : rlLog[i].overlapped

\* Two calls at the same instant both read the empty counter of a limit-1
\* key and both were allowed
C11_Witness ==
    /\ rl.limit = 1
    /\ Len(rlLog) >= 2
    /\ rlLog[1].allowed /\ rlLog[2].allowed
    /\ rlLog[1].t = rlLog[2].t
    /\ rlLog[1].overlapped /\ rlLog[2].overlapped

\* The timestamps stored under the key of the last call, before the call,
\* that its pruning keeps
Surviving ==
    IF KVHas(last.before, last.key, last.t)
    THEN LET stored == JSONparse(last.before[last.key].value).requests IN
         {stored[i] : i \in {i \in 1..Len(stored) : stored[i] > last.t - rl.windowMs}}
    ELSE {}

\* C12: every rejected checkRateLimit call returns resetTime equal to the
\* oldest timestamp that survives pruning plus windowMs, and that resetTime
\* is strictly later than the time of the call.
C12_ResetTime ==
    (last.op = "checkRateLimit" /\ ~last.allowed)
    => /\ Surviving # {}
       /\ last.hasReset
       /\ last.resetTime = SetMin(Surviving) + rl.windowMs
       /\ last.resetTime > last.t

\* A rejection with two surviving timestamps, the older about to leave the
\* window
C12_Witness ==
    /\ last.op = "checkRateLimit" /\ ~last.allowed
    /\ Cardinality(Surviving) >= 2
    /\ last.resetTime = last.t + 1

\* The sequence stored under the key of the last call, before the call
\* (empty when the key was absent or expired), and its entries that lie
\* in the window of the call
StoredBefore ==
    IF KVHas(last.before, last.key, last.t)
    THEN JSONparse(last.before[last.key].value).requests
    ELSE <<>>
SurvivingBefore ==
    LET inside(ts) == ts > last.t - rl.windowMs IN SelectSeq(StoredBefore, inside)

\* C33: when the store rejects the counter write of checkRateLimit with the
\* quota error, the call does not raise, does not go through its catch
\* block, returns allowed=true with the remaining count and the reset time
\* of an admitted call, and leaves the namespace as it was.
C33_QuotaSkipsWrite ==
    (last.op = "checkRateLimit" /\ last.failed = "putQuota")
    => /\ last.allowed
       /\ ~last.threw
       /\ ~last.caught
       /\ ~last.wrote
       /\ AUDIT = last.before
       /\ last.remaining = rl.limit - (Len(SurvivingBefore) + 1)
       /\ last.hasReset /\ last.resetTime = last.t + rl.windowMs

\* The quota error on a key that already holds a counter
C33_Witness ==
    /\ last.op = "checkRateLimit" /\ last.failed = "putQuota"
    /\ last.allowed
    /\ last.key \in DOMAIN AUDIT
    /\ Surviving # {}

\* C34: a rejected checkRateLimit call writes nothing: the namespace, and
\* with it the stored sequence of the key and its expiration, is as it was
\* before the call, and the time of the call is not added to the sequence.
C34_RejectedWritesNothing ==
    (last.op = "checkRateLimit" /\ ~last.allowed)
    => /\ ~last.wrote
       /\ AUDIT = last.before
       /\ JSONparse(AUDIT[last.key].value).requests = StoredBefore
       /\ Len(SurvivingBefore) >= rl.limit

\* A rejection later than every stored timestamp, with two clients counted
C34_Witness ==
    /\ last.op = "checkRateLimit" /\ ~last.allowed
    /\ \A i \in 1..Len(StoredBefore) : StoredBefore[i] < last.t
    /\ Len(StoredBefore) >= 2
    /\ Cardinality(DOMAIN AUDIT) = 2

\* The sequence stored under the key of the last call, after the call
StoredAfter == JSONparse(AUDIT[last.key].value).requests

\* C35: after every successful write of checkRateLimit at time now, the
\* sequence stored under the key holds only timestamps t with
\* now - windowMs < t <= now, has now as its last and newest entry, and has
\* at most limit entries: it is what survived the pruning, then now.
C35_StoredWithinWindow ==
    (last.op = "checkRateLimit" /\ last.wrote)
    => /\ \A i \in 1..Len(StoredAfter) :
            last.t - rl.windowMs < StoredAfter[i] /\ StoredAfter[i] <= last.t
       /\ StoredAfter[Len(StoredAfter)] = last.t
       /\ Len(StoredAfter) <= rl.limit
       /\ StoredAfter = Append(SurvivingBefore, last.t)

\* A write that dropped a timestamp and filled the counter to the limit
C35_Witness ==
    /\ last.op = "checkRateLimit" /\ last.wrote
    /\ Len(StoredBefore) > Len(SurvivingBefore)
    /\ Len(StoredAfter) = rl.limit
    /\ rl.limit >= 2

\* C13: withRateLimit returns null exactly when its checkRateLimit call
\* returns allowed=true; otherwise it returns a response with status 429
\* carrying Retry-After, X-RateLimit-Limit equal to limit,
\* X-RateLimit-Remaining equal to 0 and X-RateLimit-Reset equal to the
\* resetTime of the check.
C13_NullIffAllowed ==
    last.op = "withRateLimit"
    => /\ last.response.isNull <=> last.allowed
       /\ ~last.allowed
          => /\ last.response.status = 429
             /\ "RetryAfter" \in DOMAIN last.response.headers
             /\ last.response.headers.XRateLimitLimit = ToString(rl.limit)
             /\ last.response.headers.XRateLimitRemaining = ToString(0)
             /\ last.response.headers.XRateLimitReset = ToString(last.resetTime)
             /\ last.resetTime = SetMin(Surviving) + rl.windowMs

\* A client identified by X-Forwarded-For was turned away
C13_Witness ==
    /\ last.op = "withRateLimit"
    /\ ~last.response.isNull
    /\ last.key = RateLimitKey(<<"signup">>, <<"127.0.0.1">>)
    /\ last.response.headers.RetryAfter = "2"

----------------------------------------------------------------------------
(* Audit log: properties *)

\* C14: logSecurityEvent, and logUserAction and logSystemEvent which call
\* it, never raise to the caller, whatever the outcome of the store write:
\* success, the quota error, any other store error, or no AUDIT namespace;
\* only a successful write changes the namespace.
C14_LogNeverRaises ==
    last.op = "logEvent"
    => /\ ~last.threw
       /\ last.wrote <=> (last.hasAudit /\ last.fault = "ok")
       /\ ~last.wrote => AUDIT = last.before

\* logUserAction met a store error that is not the quota error
C14_Witness ==
    /\ last.op = "logEvent" /\ last.via = "logUserAction"
    /\ last.hasAudit /\ last.fault = "putError" /\ last.caught
    /\ AUDIT # <<>>

----------------------------------------------------------------------------
(* Throttled logger: properties *)

\* The successful writes in the hour that ends with the j-th one
WritesInHourTo(j) ==
    {i \in 1..Len(logWrites) :
        logWrites[i] > logWrites[j] - OneHour /\ logWrites[i] <= logWrites[j]}

\* The successful writes since the start of the logger's current window
WritesInWindow == {i \in 1..Len(logWrites) : logWrites[i] >= logger.hourStart}

\* C15 as stated: for one ThrottledLogger with cap maxLogsPerHour and log
\* calls that do not overlap, every rolling one-hour interval, aligned to
\* the logger's window start or not, contains at most maxLogsPerHour
\* successful log writes.
C15_RollingHourCap ==
    \A j \in 1..Len(logWrites) :
        Cardinality(WritesInHourTo(j)) <= logger.maxLogsPerHour

\* C15 amended: the windows are fixed, not rolling.  The successful writes
\* since the start of the logger's current window (its construction or its
\* last reset) number logCount and never exceed maxLogsPerHour; a rolling
\* one-hour interval, which can straddle a reset, contains at most
\* 2 * maxLogsPerHour successful writes.
C15_FixedWindowCap ==
    /\ Cardinality(WritesInWindow) = logger.logCount
    /\ logger.logCount <= logger.maxLogsPerHour
    /\ \A j \in 1..Len(logWrites) :
            Cardinality(WritesInHourTo(j)) <= 2 * logger.maxLogsPerHour

\* An hour that straddles a reset and holds twice the cap
C15_Witness ==
    /\ logger.maxLogsPerHour = 2
    /\ Len(logWrites) = 4
    /\ Cardinality(WritesInHourTo(4)) = 4
    /\ logger.logCount = 2

\* C16: once the logger's count for the current window has reached
\* maxLogsPerHour, every further log call returns false without a store
\* write until more than one hour has passed since the window start; the
\* first log call after that resets the count and, its store write
\* succeeding, is written.
C16_DroppedUntilRollover ==
    (last.op = "log" /\ last.loggerBefore.logCount >= last.loggerBefore.maxLogsPerHour)
    => IF last.t - last.loggerBefore.hourStart <= OneHour
       THEN /\ ~last.success /\ ~last.wrote /\ ~last.threw
            /\ AUDIT = last.before
            /\ logger = last.loggerBefore
       ELSE /\ logger.hourStart = last.t
            /\ last.fault = "ok"
               => /\ last.success /\ last.wrote
                  /\ logger.logCount = 1
                  /\ DOMAIN last.before \subseteq DOMAIN AUDIT
                  /\ DOMAIN AUDIT # DOMAIN last.before
            /\ last.fault # "ok" => ~last.wrote /\ logger.logCount = 0

\* The call that rolled a full window over
C16_Witness ==
    /\ last.op = "log"
    /\ last.loggerBefore.logCount = 2 /\ last.loggerBefore.maxLogsPerHour = 2
    /\ last.t - last.loggerBefore.hourStart = OneHour + 1
    /\ last.wrote /\ logger.logCount = 1

\* The logger of the last log call after that call's reset test
AfterReset == ResetIfElapsed(last.loggerBefore, last.t)

\* C40: a log call that reaches the store write returns true and counts the
\* write when the write completes; returns false, without raising, counting
\* or writing, when the store answers with the quota error; and raises to
\* its caller, without counting or writing, on any other store error.
C40_WriteOutcomes ==
    (last.op = "log" /\ ~last.dropped)
    => /\ last.fault = "ok"
            => /\ last.success /\ last.wrote /\ ~last.threw
               /\ logger.logCount = AfterReset.logCount + 1
               /\ AUDIT # last.before
       /\ last.fault = "putQuota"
            => /\ ~last.success /\ ~last.wrote /\ ~last.threw
               /\ logger = AfterReset
               /\ AUDIT = last.before
       /\ last.fault = "putError"
            => /\ last.threw /\ ~last.success /\ ~last.wrote
               /\ logger = AfterReset
               /\ AUDIT = last.before

\* A log call raised on a store error after an earlier write was counted
C40_Witness ==
    /\ last.op = "log" /\ ~last.dropped
    /\ last.fault = "putError" /\ last.threw
    /\ last.loggerBefore.logCount = 1
    /\ logger.logCount = 1
    /\ AUDIT # <<>>

----------------------------------------------------------------------------
(* Handlers: properties *)

\* The last call was a POST /signup that got past the honeypot check
SignupPastHoneypot == last.op = "handleSignup" /\ last.validated

\* The response is the 400 rejection of an email, whatever its message
IsEmailRejection(response) ==
    /\ response.status = 400
    /\ response.body # "An account with this email already exists."

\* C3 as stated: for a POST /signup with an empty honeypot field the
\* response is the 400 rejection, with the message for the validator's
\* reason, exactly when validateEmailLegitimacy reports the email invalid;
\* and when it reports the email valid and no user record exists for it,
\* a user record is stored under the email and the response redirects to
\* /login.
C3_DecisionFollowsVerdict ==
    SignupPastHoneypot
    => /\ IsEmailRejection(last.response) <=> ~last.verdict.isValid
       /\ ~last.verdict.isValid
          => last.response.body = getEmailErrorMessage(last.verdict.reason)
       /\ (last.verdict.isValid /\ ~KVHas(last.usersBefore, last.form.email, last.t))
          => /\ KVHas(USERS, last.form.email, last.t)
             /\ last.response.status = 302
             /\ last.response.location = "/login?message=Account created! Please log in."

\* The last call was a POST /api/contact with all four fields, a configured
\* Turnstile secret and an answer from the verification
ContactComplete ==
    /\ last.op = "handleContact"
    /\ last.method = "POST"
    /\ last.body.json
    /\ last.body.name # "" /\ last.body.email # ""
    /\ last.body.message # "" /\ last.body.turnstileToken # ""
    /\ env.TURNSTILE_SECRET_KEY # ""
    /\ last.turnstile \in {"success", "failure"}

\* C4 as stated: for a POST /api/contact with name, email, message and
\* turnstileToken and a configured Turnstile secret, the response is 400
\* 'Invalid email' exactly when the validator reports the email invalid;
\* otherwise it is 403 when the verification reports success=false and 200
\* 'Message sent!' when it reports success=true.
C4_ContactFollowsVerdict ==
    ContactComplete
    => /\ last.response = Response(400, "Invalid email") <=> ~last.verdict.isValid
       /\ last.verdict.isValid
          => /\ last.turnstile = "failure" => last.response.status = 403
             /\ last.turnstile = "success"
                => last.response = Response(200, "Message sent!")

----------------------------------------------------------------------------
(* The SESSIONS namespace: properties *)

\* C8 as stated: getSession returns a record only for an identifier that an
\* earlier createSession returned; every other cookie input, an identifier
\* naming a value of SESSIONS that createSession did not write (such as the
\* key disposable_domains_cache) included, yields absent.  Calls whose store
\* operation fails are left aside.
C8_OnlyIssuedIds ==
    (last.op = "getSession" /\ ~last.threw /\ last.found)
    => last.id \in DOMAIN issued

----------------------------------------------------------------------------
(* Email validator: properties *)

\* C17: with the hardcoded fallback set the one consulted, the validator
\* rejects user@mailinator.com as disposable, rejects ab1234567@x.com for
\* its pattern, and accepts jane.doe@a.co.
C17_FallbackVerdicts ==
    (last.op = "checkEmail" /\ last.list = FALLBACK_DISPOSABLE_DOMAINS)
    => /\ last.email = "user@mailinator.com"
            => last.verdict = [isValid |-> FALSE,
                               reason |-> "Disposable email address not allowed"]
       /\ last.email = "ab1234567@x.com"
            => last.verdict = [isValid |-> FALSE,
                               reason |-> "Email pattern not allowed"]
       /\ last.email = "jane.doe@a.co" => last.verdict = [isValid |-> TRUE]

\* The pattern case of C17 happened
C17_Witness ==
    /\ last.op = "checkEmail"
    /\ last.list = FALLBACK_DISPOSABLE_DOMAINS
    /\ last.email = "ab1234567@x.com"
    /\ ~last.verdict.isValid

\* C18 as stated: the validator accepts test@example.com, which the test
\* file lists as expected valid, and rejects invalid-email.
C18_TestCases ==
    last.op = "checkEmail"
    => /\ last.email = "test@example.com" => last.verdict.isValid
       /\ last.email = "invalid-email" => ~last.verdict.isValid

\* The call went past the in-memory and the persisted copy, tried the
\* remote list, and the fetch raised or answered with a status that is not OK
RefreshFailed ==
    /\ last.op = "checkEmail"
    /\ last.envKind # "undefined"
    /\ last.source = "catch"
    /\ last.failed

\* C19: when the refresh fails while an in-memory set from an earlier load
\* exists, the validator does not raise, rejects as disposable exactly the
\* domains of that set, and leaves the set and its timestamp as they were.
C19_RefreshFailureKeepsSet ==
    (RefreshFailed /\ ~last.cacheBefore.isNull)
    => /\ ~last.threw
       /\ last.list = last.cacheBefore.domains
       /\ (last.verdict = [isValid |-> FALSE,
                           reason |-> "Disposable email address not allowed"])
            <=> (EmailTable[last.email].domain \in last.cacheBefore.domains)
       /\ DISPOSABLE_DOMAINS_CACHE = last.cacheBefore
       /\ CACHE_TIMESTAMP = last.tsBefore

\* A refresh failed with a loaded set in memory, and a domain that only the
\* loaded set names was rejected
C19_Witness ==
    /\ RefreshFailed
    /\ ~last.cacheBefore.isNull
    /\ last.email = "bob@trashmail.io"
    /\ ~last.verdict.isValid
    /\ DISPOSABLE_DOMAINS_CACHE = last.cacheBefore

\* The store held a copy of the list when the call began, and could be read
PersistedBefore ==
    /\ last.envKind = "full"
    /\ last.getF = "ok"
    /\ KVHas(last.storeBefore, CacheKey, last.t)

\* C20 as stated: on a failed refresh the set consulted is the in-memory set
\* if there is one, otherwise the persisted set of the store even when it is
\* older than 24 hours, otherwise the hardcoded set.
C20_FallbackOrder ==
    RefreshFailed
    => last.list =
        IF ~last.cacheBefore.isNull THEN last.cacheBefore.domains
        ELSE IF PersistedBefore
        THEN JSONparse(last.storeBefore[CacheKey].value).domains
        ELSE FALLBACK_DISPOSABLE_DOMAINS

\* The remote list was fetched and parsed during the last call
Refreshed == last.op = "checkEmail" /\ last.source = "remote"

\* C36: after a successful remote fetch the in-memory set is the parsed list
\* and its timestamp is the time the lookup began; with a store whose put
\* succeeds, the store holds the list with that timestamp and expires it 24
\* hours after the put; when the put fails or there is no store, the store
\* is left as it was, and in every case the call does not raise and judges
\* the address against the fetched list.
C36_RefreshInstallsAndPersists ==
    Refreshed
    => /\ DISPOSABLE_DOMAINS_CACHE = SetCache(ParseDomainList(last.lines))
       /\ CACHE_TIMESTAMP = last.t
       /\ ~last.threw
       /\ last.list = ParseDomainList(last.lines)
       /\ (last.verdict = Invalid("Disposable email address not allowed"))
            <=> (EmailTable[last.email].domain \in ParseDomainList(last.lines))
       /\ IF last.envKind = "full" /\ last.putF = "ok"
          THEN /\ CacheKey \in DOMAIN SESSIONS
               /\ SESSIONS[CacheKey].value =
                    JSONstringify([domains |-> ParseDomainList(last.lines),
                                   timestamp |-> last.t])
               /\ SESSIONS[CacheKey].expiration = now + CACHE_DURATION
          ELSE SESSIONS = last.storeBefore

\* A stale in-memory set was replaced by a fetch that took a second, the
\* store refused the copy, and a domain of the fetched list was rejected
C36_Witness ==
    /\ Refreshed
    /\ ~last.cacheBefore.isNull
    /\ now > last.t
    /\ last.envKind = "full"
    /\ last.putF = "error"
    /\ last.email = "bob@trashmail.io"
    /\ ~last.verdict.isValid

\* C37 as stated: the set a validation consults is never empty and holds
\* every built-in disposable domain, whatever the remote list answered.
C37_BlocklistHoldsBuiltins ==
    (last.op = "checkEmail" /\ last.source # "none")
    => /\ last.list # {}
       /\ FALLBACK_DISPOSABLE_DOMAINS \subseteq last.list

----------------------------------------------------------------------------
(* Accounts: properties *)

\* The registrations that succeeded with this address and password and were
\* not deleted since
Registered(email, password) ==
    {i \in 1..Len(issued) :
        /\ issued[i].success /\ ~issued[i].deleted
        /\ issued[i].email = email /\ issued[i].password = password}

\* C38 as stated: once registerUser(email, password) succeeded, loginUser
\* with the same address and password succeeds and returns the identifier
\* registerUser returned, for every address, one with capital letters too.
C38_RegisterThenLogin ==
    (/\ last.op = "loginUser" /\ last.fault = "ok"
     /\ Registered(last.email, last.password) # {})
    => /\ last.result.success
       /\ \E i \in Registered(last.email, last.password) :
            last.result.user.id = issued[i].id

\* The call that registered the user deleteUser was called for
DeletedCall == CHOOSE i \in 1..Len(issued) : issued[i].id = last.userId

\* C39 as stated: once deleteUser(userId) returned success the store holds
\* neither the user's record nor its identifier index, getUserById(userId)
\* is null, and the same address can be registered again, for every address,
\* one with capital letters too.
C39_DeleteRemovesUser ==
    (last.op = "deleteUser" /\ last.result.success)
    => /\ UserKey(Chars[issued[DeletedCall].email]) \notin DOMAIN USERS
       /\ UserIdKey(last.userId) \notin DOMAIN USERS
       /\ getUserById(USERS, last.userId, "ok") = NoValue
       /\ registerUser(USERS, AUDIT, issued[DeletedCall].email, "pw1",
                       UserId(MaxUsers + 1), now, "r1", "ok").result.success

----------------------------------------------------------------------------
(* The session cookie: properties *)

\* C21 as stated: for every maxAge, 0 included, the cookie built with the
\* other options left to their defaults is session=<id>; HttpOnly; Secure;
\* SameSite=Strict; Max-Age=<maxAge>; Path=/.
C21_CookieAttributes ==
    (last.op = "createSessionCookie" /\ DOMAIN last.options = {"maxAge"})
    => last.cookie = << <<"session", last.sessionId>>, <<"HttpOnly">>, <<"Secure">>,
                        <<"SameSite", "Strict">>,
                        <<"Max-Age", ToString(last.options.maxAge)>>,
                        <<"Path", "/">> >>

----------------------------------------------------------------------------
(* Sending email: properties *)

\* C23 as stated: sendEmail never raises; it returns true when the selected
\* implementation completes without throwing, and false when it throws or
\* when EMAIL_PROVIDER names no provider of the registry.
C23_SendEmailResult ==
    last.op = "sendEmail"
    => /\ ~last.threw
       /\ (last.called /\ ~last.providerThrew) => last.result
       /\ last.providerThrew => ~last.result
       /\ last.provider \notin last.registered => ~last.result

\* C24 as stated: when the selected implementation returns false, sendEmail
\* returns false.
C24_FalseReported ==
    (last.op = "sendEmail" /\ last.returned = "false") => ~last.result

----------------------------------------------------------------------------
(* The honeypot of the signup form *)

AccountCreated == Redirect("/login?message=Account created! Please log in.", 302)

\* The honeypot event of the last call is in the AUDIT namespace
HoneypotLogged ==
    \E k \in DOMAIN AUDIT :
        /\ k[2] = ToString(last.t)
        /\ JSONparse(AUDIT[k].value).event = "signup_honeypot_triggered"
        /\ JSONparse(AUDIT[k].value).details.email = last.form.email

\* The honeypot field holds a character that is not white space
HoneypotFilled ==
    \E i \in 1..Len(last.form.website) : last.form.website[i] \notin Whitespace

----------------------------------------------------------------------------
(* Audit events: write-once *)

\* The last call was an audit write that the store accepted
AuditWrite ==
    last.op \in {"logEvent", "logThrottled", "logEmailValidation"} /\ last.wrote

\* C29 as stated: every audit write goes to a key that holds no earlier
\* event, so that no stored event is overwritten, and carries a TTL.
C29_WriteOnce ==
    AuditWrite
    => /\ last.key \notin DOMAIN last.before
       /\ \A k \in DOMAIN last.before : AUDIT[k] = last.before[k]
       /\ AUDIT[last.key].expiration = last.t + last.ttl

\* C29 amended: an audit write puts one key, made of the time of the write
\* and a random suffix, with a TTL, and leaves every other key as it was;
\* the key holds an earlier event only when that event was written by the
\* same function at the same time with the same suffix, and that event is
\* then replaced.
C29_WriteOnceUnlessSameKey ==
    AuditWrite
    => /\ DOMAIN AUDIT = DOMAIN last.before \cup {last.key}
       /\ \A k \in DOMAIN last.before \ {last.key} : AUDIT[k] = last.before[k]
       /\ last.ttl > 0
       /\ AUDIT[last.key].expiration = last.t + last.ttl
       /\ last.key \in DOMAIN last.before
          => \E ttl \in {last.ttl, OneHour, DefaultAuditLogTtl} :
                last.before[last.key].expiration = last.t + ttl

\* An event replaced by another one written at the same time
C29_Witness ==
    /\ AuditWrite
    /\ last.key \in DOMAIN last.before
    /\ AUDIT[last.key].value # last.before[last.key].value

----------------------------------------------------------------------------
(* The debounce of the activity refresh *)

\* The time of the last write of the record getSession read: the store keeps
\* the expiration of a record, which every write of a session sets to the
\* time of the write plus expirationTtl
WrittenAt ==
    last.before[last.id].expiration - getConfig(env).session.expirationTtl

\* C28: getSession rewrites the record only when more than five minutes have
\* passed since the lastActivity it holds; the rewrite stores the time of
\* the call as lastActivity, so that a rewrite comes more than five minutes
\* after the write before it; within the five minutes the store is left
\* as it was.
C28_Debounce ==
    /\ (last.op = "getSession" /\ last.wrote)
       => /\ last.t - last.seen.lastActivity > fiveMinutes
          /\ last.t - WrittenAt > fiveMinutes
          /\ JSONparse(SESSIONS[last.id].value).lastActivity = last.t
    /\ (last.op = "getSession" /\ last.found
            /\ last.t - last.seen.lastActivity <= fiveMinutes)
       => ~last.wrote /\ SESSIONS = last.before

\* A second rewrite of a record, five minutes and a second after the first
C28_Witness ==
    /\ last.op = "getSession"
    /\ last.wrote
    /\ last.seen.lastActivity # last.seen.createdAt
    /\ last.t - WrittenAt = fiveMinutes + 1

----------------------------------------------------------------------------
(* destroySession: properties *)

\* C27: destroySession raises only when the store does, also for an
\* identifier with no record and when called a second time; it leaves no
\* record for the identifier and every other record as it was.
C27_DestroyIdempotent ==
    last.op = "destroySession"
    => /\ last.fault = "ok" => ~last.threw
       /\ ~last.threw
            => /\ last.id \notin DOMAIN SESSIONS
               /\ DOMAIN SESSIONS = DOMAIN last.before \ {last.id}
               /\ \A k \in DOMAIN SESSIONS : SESSIONS[k] = last.before[k]

\* A second destroySession in a row on an identifier, with another record
\* in the store
C27_Witness ==
    /\ last.op = "destroySession"
    /\ last.again
    /\ ~last.threw
    /\ last.id \notin DOMAIN last.before
    /\ DOMAIN SESSIONS # {}

----------------------------------------------------------------------------
(* The fetch handler: properties *)

\* The session identifier in the cookie of the last call is one that a
\* /logout request destroyed
AfterLogout ==
    /\ "Cookie" \in DOMAIN last.headers
    /\ HasSessionRow(last.headers.Cookie)
    /\ FindSessionRow(last.headers.Cookie)[2] \in loggedOut

\* C22: once a /logout request with a valid session has been handled, the
\* record of that session is not in the store, and every later getSession
\* with its identifier returns no session (and /dashboard, which asks
\* getSession, does not show the page).
C22_LoggedOutStaysOut ==
    /\ \A id \in loggedOut : id \notin DOMAIN SESSIONS
    /\ (last.op = "getSession" /\ AfterLogout) => ~last.found
    /\ (last.op = "fetch" /\ AfterLogout /\ last.request.pathname = "/dashboard")
       => last.reply.status # 200

\* A getSession that asks the store for a session logged out earlier, while
\* another session is still there
C22_Witness ==
    /\ last.op = "getSession"
    /\ AfterLogout
    /\ last.id \in loggedOut
    /\ ~last.threw
    /\ DOMAIN SESSIONS # {}
    /\ ~last.found

\* C31 as stated: once destroySession for an identifier has completed, the
\* store holds no record for it, and no getSession returns one, also when a
\* getSession that read the record before the delete puts its refresh
\* after it.
C31_NoResurrection ==
    /\ \A id \in loggedOut : id \notin DOMAIN SESSIONS
    /\ (last.op = "getSession:return" /\ last.afterLogout) => ~last.found

\* C32 as stated: for one ThrottledLogger, logCount never exceeds
\* maxLogsPerHour and the writes of the current window never number more
\* than maxLogsPerHour, also when log calls overlap.
C32_CapUnderOverlap ==
    logger.maxLogsPerHour > 0
    => /\ logger.logCount <= logger.maxLogsPerHour
       /\ Cardinality(WritesInWindow) <= logger.maxLogsPerHour

\* C25 as stated: when an error reaches the catch of the fetch handler, the
\* body of the response does not depend on the error: any other error
\* message caught there would have given the same body.
C25_GenericErrorBody ==
    (last.op = "fetch" /\ last.caught)
    => \A m \in StoreMessages \cup {InvalidUrlMessage, ImmutableHeadersMessage} :
          WorkerCatch(m).body = last.reply.body

\* C26 as stated: every response the fetch handler returns carries the
\* headers addSecurityHeaders sets, with the values it sets.
C26_AllResponsesSecured ==
    last.op = "fetch"
    => \A h \in DOMAIN SecurityHeaders :
          h \in DOMAIN last.reply.headers
          /\ last.reply.headers[h] = SecurityHeaders[h]

============================================================================
